---- MODULE Spec2Model ----
(***************************************************************************)
(* International Market: the order / checkout / coupon pipeline and the    *)
(* order-status state machine (src/main.py, src/database.py,               *)
(* src/helper.py).                                                         *)
(*                                                                         *)
(* Money is counted in whole cents.  A missing value (Python None, an      *)
(* absent key, an empty string) is 0 for an instant or an id, "" for a     *)
(* string and <<>> for a text.  A text (order notes, an admin message) is  *)
(* a sequence of tokens, so that strip()/rstrip() act on it.               *)
(***************************************************************************)
EXTENDS Integers, Sequences, FiniteSets, TLC

\* ------------------------------------------------------------------ bounds
MaxOrders == 2
MaxSessions == 1
MaxNow == 2

\* ------------------------------------------------------ the finite universe
Customers == {1, 2}
Products == {1}
Addresses == {"addr"}
Statuses == {"pending", "confirmed", "packed", "out_for_delivery", "delivered", "canceled"}
PaymentMethods == {"cod", "online"}

\* ------------------------------------------------------------------ state
VARIABLES
    coupon_codes,       \* code -> <<>> or <<coupon document>>
    carts,              \* customer_id -> sequence of product ids
    checkout_drafts,    \* customer_id -> <<>> or <<draft>> (SpecDrafts: the documents)
    orders,             \* the orders collection, in insertion order
    transaction_logs,   \* the transaction_logs collection, in insertion order
    counters,           \* counters["order_id"].seq
    sessions,           \* payment sessions created at the provider
    now,                \* datetime.utcnow()
    acked,              \* payment references whose callback was answered 200
    made,               \* <<payment reference, order_id>>: orders a callback inserted
    procs,              \* request handlers in progress (interleaved execution)
    totals              \* the last call of compute_totals and what it gave

vars == <<coupon_codes, carts, checkout_drafts, orders, transaction_logs,
          counters, sessions, now, acked, made, procs, totals>>

\* ------------------------------------------------------------ text helpers
\* a text is a sequence of tokens: words, and the whitespace characters WS (a
\* newline) and SP (a space)
WS == "ws"
SP == "sp"
Whitespace == {WS, SP}

RECURSIVE rstrip(_)
\* str.rstrip(): the text without its trailing whitespace tokens
rstrip(s) ==
    IF s = <<>> THEN <<>>
    ELSE IF s[Len(s)] \in Whitespace THEN rstrip(SubSeq(s, 1, Len(s) - 1))
    ELSE s

RECURSIVE lstrip(_)
lstrip(s) ==
    IF s = <<>> THEN <<>>
    ELSE IF Head(s) \in Whitespace THEN lstrip(Tail(s))
    ELSE s

\* str.strip()
strip(s) == lstrip(rstrip(s))

\* (new_status or "").strip() on the status strings a request can carry
StatusInputs == Statuses \cup {"refunded", "", " packed "}
strip_status(s) == IF s = " packed " THEN "packed" ELSE s

\* (code or "").strip().upper() on the coupon codes a request can carry
CodeInputs == {"", "SAVE", " save "}
_normalize_coupon_code(code) == IF code = " save " THEN "SAVE" ELSE code
Codes == {"SAVE"}

\* ------------------------------------------------------- order state machine
OPEN_STATUSES == {"pending", "confirmed", "packed", "out_for_delivery"}
CLOSED_STATUSES == {"delivered", "canceled"}

\* A faulty table: entering out_for_delivery stamps packed_at again.
STATUS_TS_FIELD_restamps_packed ==
    [s \in Statuses \ {"pending"} |->
        CASE s = "confirmed" -> "confirmed_at"
          [] s = "packed" -> "packed_at"
          [] s = "out_for_delivery" -> "packed_at"
          [] s = "delivered" -> "delivered_at"
          [] s = "canceled" -> "canceled_at"]

STATUS_TS_FIELD ==
    [s \in Statuses \ {"pending"} |->
        CASE s = "confirmed" -> "confirmed_at"
          [] s = "packed" -> "packed_at"
          [] s = "out_for_delivery" -> "out_for_delivery_at"
          [] s = "delivered" -> "delivered_at"
          [] s = "canceled" -> "canceled_at"]

\* A faulty table: a packed order may skip straight to delivered.
ALLOWED_TRANSITIONS_skips_delivery ==
    [s \in Statuses |->
        CASE s = "pending" -> {"confirmed", "canceled"}
          [] s = "confirmed" -> {"packed"}
          [] s = "packed" -> {"out_for_delivery", "delivered"}
          [] s = "out_for_delivery" -> {"delivered"}
          [] s = "delivered" -> {}
          [] s = "canceled" -> {}]

ALLOWED_TRANSITIONS ==
    [s \in Statuses |->
        CASE s = "pending" -> {"confirmed", "canceled"}
          [] s = "confirmed" -> {"packed"}
          [] s = "packed" -> {"out_for_delivery"}
          [] s = "out_for_delivery" -> {"delivered"}
          [] s = "delivered" -> {}
          [] s = "canceled" -> {}]

\* A faulty rule: a delivered order can still be canceled.
can_transition_order_status_reopens_delivered(current_status, new_status) ==
    \/ strip_status(new_status) \in ALLOWED_TRANSITIONS[strip_status(current_status)]
    \/ strip_status(current_status) = "delivered" /\ strip_status(new_status) = "canceled"

can_transition_order_status(current_status, new_status) ==
    LET cur == strip_status(current_status)
        new == strip_status(new_status)
        allowed == IF cur \in DOMAIN ALLOWED_TRANSITIONS
                   THEN ALLOWED_TRANSITIONS[cur] ELSE {}
    IN  new \in allowed

\* ------------------------------------------------------------ totals calculator
TAX_RATE_MD_PERCENT == 6

\* round(x, 2) of the float num/den cents: the nearest cent; a value that lies
\* exactly on a half cent goes to either neighbour, as the binary float decides.
round2(num, den) ==
    LET q == num \div den
        r == num % den
    IN  IF 2 * r < den THEN {q}
        ELSE IF 2 * r > den THEN {q + 1}
        ELSE {q, q + 1}

Max(a, b) == IF a >= b THEN a ELSE b

\* compute_totals(subtotal, discount_amount): the results the call can give
compute_totals(subtotal, discount_amount) ==
    LET sub == Max(0, subtotal)
        disc0 == Max(0, discount_amount)
        disc == IF disc0 > sub THEN sub ELSE disc0
        discounted_subtotal == sub - disc
    IN  { [subtotal |-> sub,
           discount_amount |-> disc,
           discounted_subtotal |-> discounted_subtotal,
           tax |-> tax,
           total |-> total] :
            tax \in round2(discounted_subtotal * TAX_RATE_MD_PERCENT, 100),
            total \in round2(discounted_subtotal * (100 + TAX_RATE_MD_PERCENT), 100) }

\* A call of compute_totals with keyword arguments kw, as api_apply_coupon makes
\* it: Python binds the keywords to the parameters (subtotal, discount_amount)
\* and raises TypeError for a keyword that is no parameter.
call_compute_totals(kw) ==
    IF DOMAIN kw = {"subtotal", "discount_amount"}
    THEN [raised |-> "", results |-> compute_totals(kw.subtotal, kw.discount_amount)]
    ELSE [raised |-> "TypeError", results |-> {}]

\* ------------------------------------------------------------------ coupons
NoDoc == <<>>

\* redeem(code, customer_id): one conditional update of the coupon document,
\* appending the customer and counting the use only if the customer has not
\* used the coupon and the cap is not reached.
mark_coupon_used(cc, code, customer_id) ==
    LET c == _normalize_coupon_code(code)
    IN  IF c \notin DOMAIN cc \/ cc[c] = NoDoc
        THEN [ok |-> FALSE, message |-> "Invalid coupon code.", coupon_codes |-> cc]
        ELSE LET doc == cc[c][1]
             IN  IF doc.max_uses_total > 0 /\ doc.uses_total >= doc.max_uses_total
                 THEN [ok |-> FALSE,
                       message |-> "This coupon has reached its maximum number of uses.",
                       coupon_codes |-> cc]
                 ELSE IF \E i \in 1..Len(doc.customer_ids_who_used) :
                            doc.customer_ids_who_used[i] = customer_id
                 THEN [ok |-> FALSE,
                       message |-> "You have already used this coupon.",
                       coupon_codes |-> cc]
                 ELSE [ok |-> TRUE,
                       message |-> "",
                       coupon_codes |->
                           [cc EXCEPT ![c] =
                               <<[doc EXCEPT
                                    !.customer_ids_who_used = Append(@, customer_id),
                                    !.uses_total = @ + 1]>>]]

\* create_coupon_code's document for the admin form's data
coupon_doc(code, data) ==
    [code |-> code,
     discount_type |-> data.discount_type,
     discount_value |-> data.discount_value,
     min_order_subtotal |-> data.min_order_subtotal,
     audience |-> data.audience,
     eligible_customer_ids |-> IF data.audience = "all" THEN {} ELSE data.eligible_customer_ids,
     max_uses_total |-> data.max_uses_total,
     uses_total |-> 0,
     customer_ids_who_used |-> <<>>,
     starts_at |-> data.starts_at,
     ends_at |-> data.ends_at]

\* the coupon forms the admin submits
CouponForms ==
    { [discount_type |-> "amount", discount_value |-> 500, min_order_subtotal |-> 0,
       audience |-> "all", eligible_customer_ids |-> {}, max_uses_total |-> m,
       starts_at |-> 0, ends_at |-> 0] : m \in {0, 1} }

\* update_coupon_code_by_code(code, updates) with the updates the admin's edit
\* form carries: every field of the form is written, uses_total and
\* customer_ids_who_used are left as they are
update_coupon_code_by_code(cc, code_in, updates) ==
    LET code == _normalize_coupon_code(code_in)
    IN  IF code = "" \/ code \notin DOMAIN cc \/ cc[code] = NoDoc THEN cc
        ELSE IF updates.discount_type \notin {"amount", "percent"} THEN cc
        ELSE IF updates.audience \notin {"all", "customers"} THEN cc
        ELSE IF updates.discount_value <= 0 THEN cc
        ELSE IF updates.min_order_subtotal < 0 THEN cc
        ELSE IF updates.max_uses_total < 0 THEN cc
        ELSE [cc EXCEPT ![code] =
                <<[@[1] EXCEPT
                     !.discount_type = updates.discount_type,
                     !.discount_value = updates.discount_value,
                     !.min_order_subtotal = updates.min_order_subtotal,
                     !.audience = updates.audience,
                     !.eligible_customer_ids =
                         IF updates.audience = "all" THEN {} ELSE updates.eligible_customer_ids,
                     !.max_uses_total = updates.max_uses_total,
                     !.starts_at = updates.starts_at,
                     !.ends_at = updates.ends_at]>>]

\* what validate_coupon_for_subtotal returns for a refused coupon
refusal(message) == [ok |-> FALSE, message |-> message, discount_amounts |-> {}]

\* A faulty discount: the subtotal does not cap it.
discount_amounts_unclamped(coupon, subtotal) ==
    IF coupon.discount_type = "amount"
    THEN {coupon.discount_value}
    ELSE round2(subtotal * coupon.discount_value, 100)

\* round(discount_amount, 2) for the coupon's discount on a subtotal
discount_amounts(coupon, subtotal) ==
    IF coupon.discount_type = "amount"
    THEN {IF coupon.discount_value > subtotal THEN subtotal ELSE coupon.discount_value}
    ELSE {IF d > subtotal THEN subtotal ELSE d :
              d \in round2(subtotal * coupon.discount_value, 100)}

\* A faulty order of checks: the customer's earlier use is looked at before
\* the cap on the total uses.
validate_coupon_document_checks_used_first(coupon, customer_id, subtotal, t) ==
    IF coupon.starts_at # 0 /\ t < coupon.starts_at
    THEN refusal("This coupon is not active yet.")
    ELSE IF coupon.ends_at # 0 /\ t > coupon.ends_at
    THEN refusal("This coupon has expired.")
    ELSE IF subtotal < coupon.min_order_subtotal
    THEN refusal("Minimum order subtotal is $... for this coupon.")
    ELSE IF coupon.audience = "customers" /\ customer_id \notin coupon.eligible_customer_ids
    THEN refusal("This coupon is not available for your account.")
    ELSE IF \E i \in 1..Len(coupon.customer_ids_who_used) :
                coupon.customer_ids_who_used[i] = customer_id
    THEN refusal("You have already used this coupon.")
    ELSE IF coupon.max_uses_total > 0 /\ coupon.uses_total >= coupon.max_uses_total
    THEN refusal("This coupon has reached its maximum number of uses.")
    ELSE IF coupon.discount_type \notin {"amount", "percent"} \/ coupon.discount_value <= 0
    THEN refusal("This coupon is configured incorrectly. Please contact support.")
    ELSE [ok |-> TRUE, message |-> "Coupon applied",
          discount_amounts |-> discount_amounts(coupon, subtotal)]

\* validate_coupon_for_subtotal once the coupon document is found, at time t
validate_coupon_document(coupon, customer_id, subtotal, t) ==
    IF coupon.starts_at # 0 /\ t < coupon.starts_at
    THEN refusal("This coupon is not active yet.")
    ELSE IF coupon.ends_at # 0 /\ t > coupon.ends_at
    THEN refusal("This coupon has expired.")
    ELSE IF subtotal < coupon.min_order_subtotal
    THEN refusal("Minimum order subtotal is $... for this coupon.")
    ELSE IF coupon.audience = "customers" /\ customer_id \notin coupon.eligible_customer_ids
    THEN refusal("This coupon is not available for your account.")
    ELSE IF coupon.max_uses_total > 0 /\ coupon.uses_total >= coupon.max_uses_total
    THEN refusal("This coupon has reached its maximum number of uses.")
    ELSE IF \E i \in 1..Len(coupon.customer_ids_who_used) :
                coupon.customer_ids_who_used[i] = customer_id
    THEN refusal("You have already used this coupon.")
    ELSE IF coupon.discount_type \notin {"amount", "percent"} \/ coupon.discount_value <= 0
    THEN refusal("This coupon is configured incorrectly. Please contact support.")
    ELSE [ok |-> TRUE, message |-> "Coupon applied",
          discount_amounts |-> discount_amounts(coupon, subtotal)]

\* validate(code, customer_id, subtotal) at time t: reads the coupon, writes nothing
validate_coupon_for_subtotal(cc, code_in, customer_id, subtotal_in, t) ==
    LET code == _normalize_coupon_code(code_in)
        subtotal == Max(0, subtotal_in)
    IN  IF code = "" THEN refusal("Please enter a coupon code.")
        ELSE IF code \notin DOMAIN cc \/ cc[code] = NoDoc THEN refusal("Invalid coupon code.")
        ELSE validate_coupon_document(cc[code][1], customer_id, subtotal, t)

\* ------------------------------------------------------------- documents
\* the payloads POST /api/checkout/draft receives (CheckoutDraftIn)
DraftPayloads ==
    { [items |-> <<[product_id |-> 1, quantity |-> 1]>>,
       subtotal |-> 1000, discount_amount |-> 0, discounted_subtotal |-> 1000,
       tax |-> 60, shipping_fee |-> 500, total |-> 1560, coupon_code |-> ""],
      [items |-> <<[product_id |-> 1, quantity |-> 2]>>,
       subtotal |-> 2000, discount_amount |-> 500, discounted_subtotal |-> 1500,
       tax |-> 90, shipping_fee |-> 500, total |-> 2090, coupon_code |-> " save "] }

\* the notes a customer types, and the messages an admin types
NoteInputs == {<<>>, <<"leave at door", WS>>}
AdminMessages == {<<>>, <<WS>>, <<WS, "on its way">>}

\* payload.model_dump(): the draft as stored, before shipping data is added
draft_of(payload) ==
    [items |-> payload.items,
     subtotal |-> payload.subtotal,
     discount_amount |-> payload.discount_amount,
     discounted_subtotal |-> payload.discounted_subtotal,
     tax |-> payload.tax,
     shipping_fee |-> payload.shipping_fee,
     total |-> payload.total,
     coupon_code |-> payload.coupon_code,
     shipping_address |-> "",
     notes |-> <<>>]

get_checkout_draft(drafts, customer_id) == drafts[customer_id]

upsert_checkout_draft(drafts, customer_id, draft) ==
    [drafts EXCEPT ![customer_id] = <<draft>>]

delete_checkout_draft(drafts, customer_id) ==
    [drafts EXCEPT ![customer_id] = <<>>]

empty_cart(cs, customer_id) == [cs EXCEPT ![customer_id] = <<>>]

\* A faulty document: the total is computed again from the discounted
\* subtotal and the tax, without the shipping fee.
order_doc_recomputes_total(order_id, customer_id, draft, payment_method, shipping_address, notes, t) ==
    [order_id |-> order_id,
     customer_id |-> customer_id,
     order_status |-> "pending",
     items |-> draft.items,
     subtotal |-> draft.subtotal,
     discount_amount |-> draft.discount_amount,
     discounted_subtotal |-> draft.discounted_subtotal,
     tax |-> draft.tax,
     shipping_fee |-> draft.shipping_fee,
     total |-> draft.discounted_subtotal + draft.tax,
     coupon_code |-> draft.coupon_code,
     payment_method |-> payment_method,
     payment_transaction_id |-> 0,
     notes |-> notes,
     shipping_address |-> shipping_address,
     ordered_at |-> t,
     confirmed_at |-> 0,
     packed_at |-> 0,
     out_for_delivery_at |-> 0,
     delivered_at |-> 0,
     canceled_at |-> 0]

\* A faulty document: the order is inserted as already confirmed.
order_doc_confirmed(order_id, customer_id, draft, payment_method, shipping_address, notes, t) ==
    [order_id |-> order_id,
     customer_id |-> customer_id,
     order_status |-> "confirmed",
     items |-> draft.items,
     subtotal |-> draft.subtotal,
     discount_amount |-> draft.discount_amount,
     discounted_subtotal |-> draft.discounted_subtotal,
     tax |-> draft.tax,
     shipping_fee |-> draft.shipping_fee,
     total |-> draft.total,
     coupon_code |-> draft.coupon_code,
     payment_method |-> payment_method,
     payment_transaction_id |-> 0,
     notes |-> notes,
     shipping_address |-> shipping_address,
     ordered_at |-> t,
     confirmed_at |-> t,
     packed_at |-> 0,
     out_for_delivery_at |-> 0,
     delivered_at |-> 0,
     canceled_at |-> 0]

\* the document create_order_from_draft inserts
order_doc(order_id, customer_id, draft, payment_method, shipping_address, notes, t) ==
    [order_id |-> order_id,
     customer_id |-> customer_id,
     order_status |-> "pending",
     items |-> draft.items,
     subtotal |-> draft.subtotal,
     discount_amount |-> draft.discount_amount,
     discounted_subtotal |-> draft.discounted_subtotal,
     tax |-> draft.tax,
     shipping_fee |-> draft.shipping_fee,
     total |-> draft.total,
     coupon_code |-> draft.coupon_code,
     payment_method |-> payment_method,
     payment_transaction_id |-> 0,
     notes |-> notes,
     shipping_address |-> shipping_address,
     ordered_at |-> t,
     confirmed_at |-> 0,
     packed_at |-> 0,
     out_for_delivery_at |-> 0,
     delivered_at |-> 0,
     canceled_at |-> 0]

\* A faulty counter: the value is read and handed out, the increment is lost
\* once the sequence has started.
next_sequence_loses_increment(seq) == IF seq = 0 THEN 1 ELSE seq

\* next_sequence(name): find_one_and_update with {"$inc": {"seq": 1}} and
\* return_document=True, one atomic operation of the store: the new value
next_sequence(seq) == seq + 1

\* the document create_transaction_log inserts; uuid4 gives a fresh id
next_transaction_id(txs) == Len(txs) + 1

transaction_doc(tx_id, order_id, customer_id, payment_method, amount, status, provider, provider_payment_intent_id, t) ==
    [transaction_id |-> tx_id,
     order_id |-> order_id,
     customer_id |-> customer_id,
     payment_method |-> payment_method,
     status |-> status,
     amount |-> amount,
     provider |-> provider,
     provider_payment_intent_id |-> provider_payment_intent_id,
     created_at |-> t]

\* orders.update_one({"order_id": oid}, {"$set": ...}): the first match is updated
first_index(os, oid) ==
    IF \E i \in 1..Len(os) : os[i].order_id = oid
    THEN CHOOSE i \in 1..Len(os) :
            os[i].order_id = oid /\ \A j \in 1..(i - 1) : os[j].order_id # oid
    ELSE 0

attach_transaction_to_order(os, order_id, transaction_id) ==
    LET i == first_index(os, order_id)
    IN  IF i = 0 THEN os
        ELSE [os EXCEPT ![i].payment_transaction_id = transaction_id]

\* transaction_logs.update_one({"transaction_id": tid}, {"$set": {"status": ...}})
update_transaction_status_by_transaction_id(txs, transaction_id, new_status) ==
    IF transaction_id = 0 THEN txs
    ELSE [i \in 1..Len(txs) |->
            IF txs[i].transaction_id = transaction_id
               /\ \A j \in 1..(i - 1) : txs[j].transaction_id # transaction_id
            THEN [txs[i] EXCEPT !.status = new_status]
            ELSE txs[i]]

\* transaction_logs.find_one({"provider": "stripe", "provider_payment_intent_id": ref})
stripe_transaction_exists(txs, ref) ==
    \E i \in 1..Len(txs) :
        txs[i].provider = "stripe" /\ txs[i].provider_payment_intent_id = ref


\* ------------------------------------------------------------ initial state
Procs == {"p1", "p2"}

\* a request handler that is not running: its locals are unset
Idle == [pc |-> "idle", op |-> "", customer_id |-> 0, ref |-> 0, draft |-> <<>>,
         mark |-> <<>>, order_id |-> 0, tx_id |-> 0, status |-> 0, message |-> ""]

NoTotals == [kw |-> <<>>, raised |-> "", result |-> <<>>]

Init ==
    /\ coupon_codes = [c \in Codes |-> NoDoc]
    /\ carts = [c \in Customers |-> <<>>]
    /\ checkout_drafts = [c \in Customers |-> <<>>]
    /\ orders = <<>>
    /\ transaction_logs = <<>>
    /\ counters = 0
    /\ sessions = <<>>
    /\ now = 1
    /\ acked = {}
    /\ made = {}
    /\ procs = [p \in Procs |-> Idle]
    /\ totals = NoTotals

\* ------------------------------------------------------------------ faults
\* The storage call of a checkout handler that raises (a lost connection, a
\* timeout): the calls before it have taken effect, those after it never run.
Faults == {"none", "find", "insert_order", "insert_tx", "attach", "empty_cart", "delete_draft"}

FaultStage ==
    [f \in Faults |->
        CASE f = "find" -> 1
          [] f = "insert_order" -> 2
          [] f = "insert_tx" -> 3
          [] f = "attach" -> 4
          [] f = "empty_cart" -> 5
          [] f = "delete_draft" -> 6
          [] f = "none" -> 7]

\* the k-th storage call of the handler returns (the fault, if any, comes later)
Passes(f, k) == FaultStage[f] > k

\* ------------------------------------------------------------- time passes
Tick ==
    /\ now < MaxNow
    /\ now' = now + 1
    /\ UNCHANGED <<coupon_codes, carts, checkout_drafts, orders, transaction_logs,
                   counters, sessions, acked, made, procs, totals>>

\* ------------------------------------------------------ POST /api/cart/add
ApiCartAdd(customer_id, product_id) ==
    /\ carts' = [carts EXCEPT ![customer_id] =
                    IF \E i \in 1..Len(@) : @[i] = product_id THEN @
                    ELSE Append(@, product_id)]
    /\ UNCHANGED <<coupon_codes, checkout_drafts, orders, transaction_logs,
                   counters, sessions, now, acked, made, procs, totals>>

\* --------------------------------------------- admin: add a coupon code
\* create_coupon_code raises for an empty or an existing code
AdminAddCouponCode(code_in, form) ==
    LET code == _normalize_coupon_code(code_in)
        rejected == code = "" \/ coupon_codes[code] # NoDoc
    IN  /\ code = "" \/ code \in Codes
        /\ coupon_codes' =
              IF rejected THEN coupon_codes
              ELSE [coupon_codes EXCEPT ![code] = <<coupon_doc(code, form)>>]
        /\ UNCHANGED <<carts, checkout_drafts, orders, transaction_logs,
                       counters, sessions, now, acked, made, procs, totals>>

\* ------------------------------------------------ POST /api/checkout/draft
ApiCheckoutDraft(customer_id, payload) ==
    /\ checkout_drafts' = upsert_checkout_draft(checkout_drafts, customer_id, draft_of(payload))
    /\ UNCHANGED <<coupon_codes, carts, orders, transaction_logs,
                   counters, sessions, now, acked, made, procs, totals>>

\* --------------------------------------- POST /api/checkout/stripe-session
\* _amount_to_cents(total) is the total itself: money is counted in cents here
\* (at most cap payment sessions are started)
ApiCheckoutStripeSessionUpTo(customer_id, shipping_address, notes, cap) ==
    LET d == get_checkout_draft(checkout_drafts, customer_id)
    IN  IF d = <<>>
        THEN UNCHANGED vars
        ELSE LET draft == [d[1] EXCEPT !.shipping_address = shipping_address,
                                       !.notes = notes]
             IN  /\ Len(sessions) < cap
                 /\ checkout_drafts' = upsert_checkout_draft(checkout_drafts, customer_id, draft)
                 /\ sessions' = Append(sessions, [customer_id |-> customer_id,
                                                  amount |-> draft.total])
                 /\ UNCHANGED <<coupon_codes, carts, orders, transaction_logs,
                                counters, now, acked, made, procs, totals>>

ApiCheckoutStripeSession(customer_id, shipping_address, notes) ==
    ApiCheckoutStripeSessionUpTo(customer_id, shipping_address, notes, MaxSessions)

\* --------------------------------------------------- checkout, step by step
\* the position of each storage write in api_checkout_place and stripe_webhook:
\* the order insert, the transaction insert, the attach, the cart, the draft
OrderInserted(f) == Passes(f, 2)
TransactionInserted(f) == Passes(f, 3)
TransactionAttached(f) == Passes(f, 4)
CartEmptied(f) == Passes(f, 5)
\* A faulty order of calls: the draft is deleted first, before the order insert.
DraftDeletedBeforeOrderInsert(f) == Passes(f, 1)

DraftDeleted(f) == Passes(f, 6)

\* A faulty caller: the refusal of mark_coupon_used is not looked at.
redeem_draft_coupon_ignores_refusal(cc, draft, customer_id) ==
    LET coupon_code == _normalize_coupon_code(draft.coupon_code)
    IN  IF coupon_code # ""
        THEN [mark_coupon_used(cc, coupon_code, customer_id) EXCEPT !.ok = TRUE]
        ELSE [ok |-> TRUE, message |-> "", coupon_codes |-> cc]

\* "MARK COUPON AS USED": the draft's coupon, if any, is redeemed
redeem_draft_coupon(cc, draft, customer_id) ==
    LET coupon_code == _normalize_coupon_code(draft.coupon_code)
    IN  IF coupon_code # ""
        THEN mark_coupon_used(cc, coupon_code, customer_id)
        ELSE [ok |-> TRUE, message |-> "", coupon_codes |-> cc]

\* The writes of a checkout that has read its draft and goes on to create the
\* order: create_order_from_draft, create_transaction_log,
\* attach_transaction_to_order, empty_cart, delete_checkout_draft, each one
\* reached only if the calls before it returned.
Materialize(customer_id, draft, payment_method, shipping_address, notes, tx_status, provider, ref, f) ==
    LET order_id == next_sequence(counters)
        tx_id == next_transaction_id(transaction_logs)
        inserted == Append(orders, order_doc(order_id, customer_id, draft, payment_method,
                                             shipping_address, notes, now))
    IN  /\ counters < MaxOrders
        /\ counters' = order_id
        /\ orders' = IF ~OrderInserted(f) THEN orders
                     ELSE IF TransactionInserted(f) /\ TransactionAttached(f)
                     THEN attach_transaction_to_order(inserted, order_id, tx_id)
                     ELSE inserted
        /\ transaction_logs' =
              IF OrderInserted(f) /\ TransactionInserted(f)
              THEN Append(transaction_logs,
                          transaction_doc(tx_id, order_id, customer_id, payment_method,
                                          draft.total, tx_status, provider, ref, now))
              ELSE transaction_logs
        /\ carts' = IF OrderInserted(f) /\ CartEmptied(f)
                    THEN empty_cart(carts, customer_id) ELSE carts
        /\ checkout_drafts' = IF DraftDeleted(f)
                              THEN delete_checkout_draft(checkout_drafts, customer_id)
                              ELSE checkout_drafts
        /\ made' = IF OrderInserted(f) /\ ref # 0 THEN made \cup {<<ref, order_id>>} ELSE made

\* ------------------------------------------------ POST /api/checkout/place
\* the response of api_checkout_place: its status and message
checkout_place_response(customer_id, payment_method, f) ==
    LET d == get_checkout_draft(checkout_drafts, customer_id)
        mark == redeem_draft_coupon(coupon_codes, d[1], customer_id)
    IN  IF f = "find" THEN [status |-> 500, message |-> "Internal Server Error"]
        ELSE IF d = <<>> THEN [status |-> 400, message |-> "Checkout draft missing."]
        ELSE IF payment_method # "cod" THEN [status |-> 400, message |-> "Invalid payment flow."]
        ELSE IF ~mark.ok THEN [status |-> 400, message |-> mark.message]
        ELSE IF f # "none" THEN [status |-> 500, message |-> "Internal Server Error"]
        ELSE [status |-> 200, message |-> ""]

\* A faulty handler: the order is placed although the coupon was refused.
checkout_place_proceeds_despite_refusal(customer_id, payment_method, f) ==
    LET d == get_checkout_draft(checkout_drafts, customer_id)
    IN  /\ f # "find"
        /\ d # <<>>
        /\ payment_method = "cod"

\* api_checkout_place gets as far as create_order_from_draft
checkout_place_proceeds(customer_id, payment_method, f) ==
    LET d == get_checkout_draft(checkout_drafts, customer_id)
    IN  /\ f # "find"
        /\ d # <<>>
        /\ payment_method = "cod"
        /\ redeem_draft_coupon(coupon_codes, d[1], customer_id).ok

ApiCheckoutPlace(customer_id, payment_method, shipping_address, notes, f) ==
    LET draft == get_checkout_draft(checkout_drafts, customer_id)[1]
    IN  IF checkout_place_proceeds(customer_id, payment_method, f)
        THEN /\ coupon_codes' = redeem_draft_coupon(coupon_codes, draft, customer_id).coupon_codes
             /\ Materialize(customer_id, draft, "cod", shipping_address, notes,
                            "pending", "", 0, f)
             /\ UNCHANGED <<sessions, now, acked, procs, totals>>
        ELSE UNCHANGED vars

\* --------------------------------------------------- POST /webhooks/stripe
\* The provider delivers checkout.session.completed for payment session ref;
\* the payment intent and the customer id in the metadata are the session's.
\* stripe_webhook gets as far as create_order_from_draft
stripe_webhook_proceeds(ref, sig_ok, f) ==
    LET customer_id == sessions[ref].customer_id
        d == get_checkout_draft(checkout_drafts, customer_id)
    IN  /\ sig_ok
        /\ f # "find"
        /\ ~stripe_transaction_exists(transaction_logs, ref)
        /\ d # <<>>
        /\ d[1].shipping_address # ""
        /\ redeem_draft_coupon(coupon_codes, d[1], customer_id).ok

\* A faulty handler: a callback that finds no draft is answered with an error.
stripe_webhook_status_rejects_missing_draft(ref, sig_ok, f) ==
    IF ~sig_ok \/ f = "find" THEN 500
    ELSE IF get_checkout_draft(checkout_drafts, sessions[ref].customer_id) = <<>> THEN 500
    ELSE IF stripe_webhook_proceeds(ref, sig_ok, f) /\ f # "none" THEN 500
    ELSE 200

\* the status of stripe_webhook's response
stripe_webhook_status(ref, sig_ok, f) ==
    IF ~sig_ok \/ f = "find" THEN 500
    ELSE IF stripe_webhook_proceeds(ref, sig_ok, f) /\ f # "none" THEN 500
    ELSE 200

StripeWebhook(ref, sig_ok, f) ==
    LET customer_id == sessions[ref].customer_id
        draft == get_checkout_draft(checkout_drafts, customer_id)[1]
    IN  /\ ref \in 1..Len(sessions)
        /\ acked' = IF stripe_webhook_status(ref, sig_ok, f) = 200
                    THEN acked \cup {ref} ELSE acked
        /\ IF stripe_webhook_proceeds(ref, sig_ok, f)
           THEN /\ coupon_codes' =
                      redeem_draft_coupon(coupon_codes, draft, customer_id).coupon_codes
                /\ Materialize(customer_id, draft, "online", draft.shipping_address,
                               draft.notes, "succeeded", "stripe", ref, f)
                /\ UNCHANGED <<sessions, now, procs, totals>>
           ELSE UNCHANGED <<coupon_codes, carts, checkout_drafts, orders, transaction_logs,
                            counters, sessions, now, made, procs, totals>>

\* ------------------------------------------------------ order status change
TransitionFaults == {"none", "update_order", "update_tx"}

\* new_status.upper() on the status names
upper(status) ==
    CASE status = "pending" -> "PENDING"
      [] status = "confirmed" -> "CONFIRMED"
      [] status = "packed" -> "PACKED"
      [] status = "out_for_delivery" -> "OUT_FOR_DELIVERY"
      [] status = "delivered" -> "DELIVERED"
      [] status = "canceled" -> "CANCELED"

\* the block appended to the notes: "[ADMIN <STATUS> @ <stamp>]\n<msg>"
admin_block(new_status, t, msg) ==
    strip(<<"[ADMIN", upper(new_status), "@", ToString(t), "]", WS>> \o msg)

\* the notes an accepted status change stores
notes_update(prev_notes, new_status, t, msg) ==
    IF msg = <<>> THEN prev_notes
    ELSE IF strip(prev_notes) # <<>>
    THEN rstrip(prev_notes) \o <<WS, WS>> \o admin_block(new_status, t, msg)
    ELSE admin_block(new_status, t, msg)

\* A faulty update: the terminal statuses are written without their timestamp.
status_updates_skips_terminal_stamp(existing, new_status, t, msg) ==
    LET with_status == [existing EXCEPT !.order_status = new_status]
        with_ts == IF new_status \in DOMAIN STATUS_TS_FIELD /\ new_status \in OPEN_STATUSES
                   THEN [with_status EXCEPT ![STATUS_TS_FIELD[new_status]] = t]
                   ELSE with_status
    IN  [with_ts EXCEPT !.notes = notes_update(existing.notes, new_status, t, msg)]

\* the {"$set": updates} of an accepted status change, applied to the document
status_updates(existing, new_status, t, msg) ==
    LET with_status == [existing EXCEPT !.order_status = new_status]
        with_ts == IF new_status \in DOMAIN STATUS_TS_FIELD
                   THEN [with_status EXCEPT ![STATUS_TS_FIELD[new_status]] = t]
                   ELSE with_status
    IN  [with_ts EXCEPT !.notes = notes_update(existing.notes, new_status, t, msg)]

\* A faulty reconciliation: any accepted change of a COD order settles its
\* transaction, delivered or not.
cod_delivery_reconciles_on_any_status(existing, new_status) ==
    /\ existing.payment_method = "cod"
    /\ existing.payment_transaction_id # 0

\* "COD delivered => mark transaction succeeded (if linked)"
cod_delivery_reconciles(existing, new_status) ==
    /\ new_status = "delivered"
    /\ existing.payment_method = "cod"
    /\ existing.payment_transaction_id # 0

\* update_order_status_with_message's verdict: "" for {"ok": True}, else the
\* detail of {"ok": False}
update_order_status_detail(os, order_id, new_status_in) ==
    LET new_status == strip_status(new_status_in)
        i == first_index(os, order_id)
    IN  IF new_status \notin OPEN_STATUSES /\ new_status \notin CLOSED_STATUSES
        THEN "Invalid status."
        ELSE IF i = 0 THEN "Order not found."
        ELSE IF ~can_transition_order_status(strip_status(os[i].order_status), new_status)
        THEN "Invalid transition"
        ELSE ""

\* A faulty handler: the transaction is settled before the order is written
\* and its failure is not caught, so that the order is not written either.
UpdateOrderStatusSettlesFirst(order_id, new_status_in, admin_message, f) ==
    LET new_status == strip_status(new_status_in)
        msg == strip(admin_message)
        i == first_index(orders, order_id)
        existing == orders[i]
    IN  /\ IF update_order_status_detail(orders, order_id, new_status_in) # ""
              \/ f = "update_order"
              \/ (f = "update_tx" /\ cod_delivery_reconciles(existing, new_status))
           THEN UNCHANGED <<orders, transaction_logs>>
           ELSE /\ orders' = [orders EXCEPT ![i] = status_updates(existing, new_status, now, msg)]
                /\ transaction_logs' =
                      IF cod_delivery_reconciles(existing, new_status) /\ f # "update_tx"
                      THEN update_transaction_status_by_transaction_id(
                               transaction_logs, existing.payment_transaction_id, "succeeded")
                      ELSE transaction_logs
        /\ UNCHANGED <<coupon_codes, carts, checkout_drafts, counters, sessions, now,
                       acked, made, procs, totals>>

\* POST /core/ops/admin/api/orders/update-status/{order_id}:
\* update_order_status_with_message(order_id, new_status, admin_message)
UpdateOrderStatus(order_id, new_status_in, admin_message, f) ==
    LET new_status == strip_status(new_status_in)
        msg == strip(admin_message)
        i == first_index(orders, order_id)
        existing == orders[i]
    IN  /\ IF update_order_status_detail(orders, order_id, new_status_in) # ""
              \/ f = "update_order"
           THEN UNCHANGED <<orders, transaction_logs>>
           ELSE /\ orders' = [orders EXCEPT ![i] = status_updates(existing, new_status, now, msg)]
                /\ transaction_logs' =
                      IF cod_delivery_reconciles(existing, new_status) /\ f # "update_tx"
                      THEN update_transaction_status_by_transaction_id(
                               transaction_logs, existing.payment_transaction_id, "succeeded")
                      ELSE transaction_logs
        /\ UNCHANGED <<coupon_codes, carts, checkout_drafts, counters, sessions, now,
                       acked, made, procs, totals>>

\* ------------------------------------------------------- helper.seed_orders
\* A faulty seed: packed_at is set for packed orders only, not for the orders
\* that went on from there.
sample_order_skips_packed_at(order_id, customer_id, status, payment_method, t) ==
    [order_id |-> order_id,
     customer_id |-> customer_id,
     order_status |-> status,
     items |-> <<[product_id |-> 1, quantity |-> 1]>>,
     subtotal |-> 2000,
     discount_amount |-> 500,
     discounted_subtotal |-> 1500,
     tax |-> 100,
     shipping_fee |-> 500,
     total |-> 2100,
     coupon_code |-> "",
     payment_method |-> payment_method,
     payment_transaction_id |-> 0,
     notes |-> <<>>,
     shipping_address |-> "addr",
     ordered_at |-> t,
     confirmed_at |-> IF status \in {"confirmed", "packed", "out_for_delivery", "delivered"}
                      THEN t ELSE 0,
     packed_at |-> IF status \in {"packed"} THEN t ELSE 0,
     out_for_delivery_at |-> IF status \in {"out_for_delivery", "delivered"} THEN t ELSE 0,
     delivered_at |-> IF status = "delivered" THEN t ELSE 0,
     canceled_at |-> IF status = "canceled" THEN t ELSE 0]

\* generate_sample_order: an order in a drawn status with the instants of the
\* states before it set (the drawn instants lie in the past; here they are now)
sample_order(order_id, customer_id, status, payment_method, t) ==
    [order_id |-> order_id,
     customer_id |-> customer_id,
     order_status |-> status,
     items |-> <<[product_id |-> 1, quantity |-> 1]>>,
     subtotal |-> 2000,
     discount_amount |-> 500,
     discounted_subtotal |-> 1500,
     tax |-> 100,
     shipping_fee |-> 500,
     total |-> 2100,
     coupon_code |-> "",
     payment_method |-> payment_method,
     payment_transaction_id |-> 0,
     notes |-> <<>>,
     shipping_address |-> "addr",
     ordered_at |-> t,
     confirmed_at |-> IF status \in {"confirmed", "packed", "out_for_delivery", "delivered"}
                      THEN t ELSE 0,
     packed_at |-> IF status \in {"packed", "out_for_delivery", "delivered"} THEN t ELSE 0,
     out_for_delivery_at |-> IF status \in {"out_for_delivery", "delivered"} THEN t ELSE 0,
     delivered_at |-> IF status = "delivered" THEN t ELSE 0,
     canceled_at |-> IF status = "canceled" THEN t ELSE 0]

SeedOrders(customer_id, status, payment_method) ==
    /\ counters < MaxOrders
    /\ counters' = next_sequence(counters)
    /\ orders' = Append(orders, sample_order(next_sequence(counters), customer_id, status,
                                             payment_method, now))
    /\ UNCHANGED <<coupon_codes, carts, checkout_drafts, transaction_logs, sessions, now,
                   acked, made, procs, totals>>

\* ------------------------------------------------------------ specifications
PlainPayloads == {p \in DraftPayloads : p.coupon_code = ""}

\* Orders and their life: checkouts by both payment flows and the admin's
\* status changes.  Every request runs to completion before
\* the next one starts and no storage call fails; the clock stands still,
\* the customer leaves no notes and the admin no message.
Next ==
    \/ \E payload \in PlainPayloads : ApiCheckoutDraft(1, payload)
    \/ \E a \in Addresses : ApiCheckoutStripeSession(1, a, <<>>)
    \/ \E pm \in PaymentMethods, a \in Addresses : ApiCheckoutPlace(1, pm, a, <<>>, "none")
    \/ \E ref \in 1..MaxSessions, sig_ok \in BOOLEAN : StripeWebhook(ref, sig_ok, "none")
    \/ \E oid \in 1..(MaxOrders + 1), s \in StatusInputs :
          UpdateOrderStatus(oid, s, <<>>, "none")

Spec == Init /\ [][Next]_vars

\* The life of the first order under a running clock, the admin writing
\* messages.
FirstOrderOnly == counters' <= 1

NextClock ==
    \/ Tick
    \/ \E payload \in PlainPayloads : ApiCheckoutDraft(1, payload)
    \/ \E a \in Addresses : ApiCheckoutStripeSession(1, a, <<>>)
    \/ \E a \in Addresses, n \in NoteInputs :
          ApiCheckoutPlace(1, "cod", a, n, "none") /\ FirstOrderOnly
    \/ \E ref \in 1..MaxSessions : StripeWebhook(ref, TRUE, "none") /\ FirstOrderOnly
    \/ \E oid \in {1, 2}, s \in StatusInputs, m \in AdminMessages :
          UpdateOrderStatus(oid, s, m, "none")

SpecClock == Init /\ [][NextClock]_vars

\* The checkout pipeline: cart, coupon, draft, payment session, both payment
\* flows.  Every request runs to completion before the next one starts, and a
\* storage call of a checkout handler may raise.
NextFault ==
    \/ \E p \in Products : ApiCartAdd(1, p)
    \/ \E code \in CodeInputs, form \in CouponForms : AdminAddCouponCode(code, form)
    \/ \E payload \in DraftPayloads : ApiCheckoutDraft(1, payload)
    \/ \E a \in Addresses : ApiCheckoutStripeSession(1, a, <<>>)
    \/ \E pm \in PaymentMethods, a \in Addresses, f \in Faults :
          ApiCheckoutPlace(1, pm, a, <<>>, f)
    \/ \E ref \in 1..MaxSessions, sig_ok \in BOOLEAN, f \in Faults :
          StripeWebhook(ref, sig_ok, f)

SpecFault == Init /\ [][NextFault]_vars

\* ------------------------------------------------- handlers, step by step
\* Two requests in flight at once: every storage call of stripe_webhook and of
\* api_checkout_place is a step of its own, and the steps of the two handlers
\* interleave freely.
Running(p, pc) == procs[p].pc = pc

\* the handler answers and ends: its locals are gone, its answer stays
Respond(p, status, message) ==
    [Idle EXCEPT !.pc = "done", !.op = procs[p].op, !.customer_id = procs[p].customer_id,
                 !.mark = procs[p].mark, !.status = status, !.message = message]

\* stripe_webhook starts on a delivery for payment reference ref
WebhookBegin(p, ref) ==
    /\ procs[p].pc \in {"idle", "done"}
    /\ ref \in 1..Len(sessions)
    /\ procs' = [procs EXCEPT ![p] =
                    [Idle EXCEPT !.pc = "find_transaction", !.op = "webhook", !.ref = ref,
                                 !.customer_id = sessions[ref].customer_id]]
    /\ UNCHANGED <<coupon_codes, carts, checkout_drafts, orders, transaction_logs,
                   counters, sessions, now, acked, made, totals>>

\* "PREVENT DUPLICATE ORDERS": transaction_logs.find_one for the reference
WebhookFindTransaction(p) ==
    /\ Running(p, "find_transaction")
    /\ IF stripe_transaction_exists(transaction_logs, procs[p].ref)
       THEN /\ procs' = [procs EXCEPT ![p] = Respond(p, 200, "ok")]
            /\ acked' = acked \cup {procs[p].ref}
       ELSE /\ procs' = [procs EXCEPT ![p].pc = "get_draft"]
            /\ UNCHANGED acked
    /\ UNCHANGED <<coupon_codes, carts, checkout_drafts, orders, transaction_logs,
                   counters, sessions, now, made, totals>>

\* api_checkout_place starts for a COD checkout of the customer
PlaceBegin(p, customer_id) ==
    /\ procs[p].pc \in {"idle", "done"}
    /\ procs' = [procs EXCEPT ![p] =
                    [Idle EXCEPT !.pc = "get_draft", !.op = "place",
                                 !.customer_id = customer_id]]
    /\ UNCHANGED <<coupon_codes, carts, checkout_drafts, orders, transaction_logs,
                   counters, sessions, now, acked, made, totals>>

\* get_checkout_draft(customer_id), and the early returns that follow it
GetDraft(p) ==
    LET d == get_checkout_draft(checkout_drafts, procs[p].customer_id)
        webhook == procs[p].op = "webhook"
    IN  /\ Running(p, "get_draft")
        /\ IF d = <<>>
           THEN /\ procs' = [procs EXCEPT ![p] =
                                IF webhook THEN Respond(p, 200, "ok")
                                ELSE Respond(p, 400, "Checkout draft missing.")]
                /\ acked' = IF webhook THEN acked \cup {procs[p].ref} ELSE acked
           ELSE IF webhook /\ d[1].shipping_address = ""
           THEN /\ procs' = [procs EXCEPT ![p] = Respond(p, 200, "ok")]
                /\ acked' = acked \cup {procs[p].ref}
           ELSE /\ procs' = [procs EXCEPT ![p].pc = "mark_coupon", ![p].draft = d]
                /\ UNCHANGED acked
        /\ UNCHANGED <<coupon_codes, carts, checkout_drafts, orders, transaction_logs,
                       counters, sessions, now, made, totals>>

\* "MARK COUPON AS USED": mark_coupon_used for the draft's coupon; a refusal
\* ends the handler (400 with the message for COD, 200 for the callback)
MarkCoupon(p) ==
    LET me == procs[p]
        mark == redeem_draft_coupon(coupon_codes, me.draft[1], me.customer_id)
        result == <<[ok |-> mark.ok, message |-> mark.message]>>
    IN  /\ Running(p, "mark_coupon")
        /\ coupon_codes' = mark.coupon_codes
        /\ IF mark.ok
           THEN /\ procs' = [procs EXCEPT ![p].pc = "create_order", ![p].mark = result]
                /\ UNCHANGED acked
           ELSE /\ procs' = [procs EXCEPT ![p] =
                                [(IF me.op = "webhook" THEN Respond(p, 200, "ok")
                                  ELSE Respond(p, 400, mark.message))
                                    EXCEPT !.mark = result]]
                /\ acked' = IF me.op = "webhook" THEN acked \cup {me.ref} ELSE acked
        /\ UNCHANGED <<carts, checkout_drafts, orders, transaction_logs,
                       counters, sessions, now, made, totals>>

\* create_order_from_draft: next_sequence("order_id"), then orders.insert_one
CreateOrder(p) ==
    LET me == procs[p]
        draft == me.draft[1]
        order_id == next_sequence(counters)
        webhook == me.op = "webhook"
    IN  /\ Running(p, "create_order")
        /\ counters < MaxOrders
        /\ counters' = order_id
        /\ orders' = Append(orders,
                            order_doc(order_id, me.customer_id, draft,
                                      IF webhook THEN "online" ELSE "cod",
                                      IF webhook THEN draft.shipping_address ELSE "addr",
                                      IF webhook THEN draft.notes ELSE <<>>, now))
        /\ made' = IF webhook THEN made \cup {<<me.ref, order_id>>} ELSE made
        /\ procs' = [procs EXCEPT ![p].pc = "create_transaction", ![p].order_id = order_id]
        /\ UNCHANGED <<coupon_codes, carts, checkout_drafts, transaction_logs,
                       sessions, now, acked, totals>>

\* A faulty step: the transaction of a cash-on-delivery order is logged as
\* succeeded, like the one of a paid order.
CreateTransactionSettled(p) ==
    LET me == procs[p]
        tx_id == next_transaction_id(transaction_logs)
        webhook == me.op = "webhook"
    IN  /\ Running(p, "create_transaction")
        /\ transaction_logs' =
              Append(transaction_logs,
                     transaction_doc(tx_id, me.order_id, me.customer_id,
                                     IF webhook THEN "online" ELSE "cod",
                                     me.draft[1].total,
                                     "succeeded",
                                     IF webhook THEN "stripe" ELSE "",
                                     me.ref, now))
        /\ procs' = [procs EXCEPT ![p].pc = "attach", ![p].tx_id = tx_id]
        /\ UNCHANGED <<coupon_codes, carts, checkout_drafts, orders,
                       counters, sessions, now, acked, made, totals>>

\* create_transaction_log: transaction_logs.insert_one
CreateTransaction(p) ==
    LET me == procs[p]
        tx_id == next_transaction_id(transaction_logs)
        webhook == me.op = "webhook"
    IN  /\ Running(p, "create_transaction")
        /\ transaction_logs' =
              Append(transaction_logs,
                     transaction_doc(tx_id, me.order_id, me.customer_id,
                                     IF webhook THEN "online" ELSE "cod",
                                     me.draft[1].total,
                                     IF webhook THEN "succeeded" ELSE "pending",
                                     IF webhook THEN "stripe" ELSE "",
                                     me.ref, now))
        /\ procs' = [procs EXCEPT ![p].pc = "attach", ![p].tx_id = tx_id]
        /\ UNCHANGED <<coupon_codes, carts, checkout_drafts, orders,
                       counters, sessions, now, acked, made, totals>>

\* attach_transaction_to_order(order_id, tx_id)
AttachTransaction(p) ==
    /\ Running(p, "attach")
    /\ orders' = attach_transaction_to_order(orders, procs[p].order_id, procs[p].tx_id)
    /\ procs' = [procs EXCEPT ![p].pc = "empty_cart"]
    /\ UNCHANGED <<coupon_codes, carts, checkout_drafts, transaction_logs,
                   counters, sessions, now, acked, made, totals>>

\* empty_cart(customer_id)
EmptyCart(p) ==
    /\ Running(p, "empty_cart")
    /\ carts' = empty_cart(carts, procs[p].customer_id)
    /\ procs' = [procs EXCEPT ![p].pc = "delete_draft"]
    /\ UNCHANGED <<coupon_codes, checkout_drafts, orders, transaction_logs,
                   counters, sessions, now, acked, made, totals>>

\* delete_checkout_draft(customer_id), then the handler's last return
DeleteDraft(p) ==
    /\ Running(p, "delete_draft")
    /\ checkout_drafts' = delete_checkout_draft(checkout_drafts, procs[p].customer_id)
    /\ procs' = [procs EXCEPT ![p] = Respond(p, 200, "ok")]
    /\ acked' = IF procs[p].op = "webhook" THEN acked \cup {procs[p].ref} ELSE acked
    /\ UNCHANGED <<coupon_codes, carts, orders, transaction_logs,
                   counters, sessions, now, made, totals>>

\* one payment session is opened, and both handlers may serve its deliveries
FirstSessionOnly == Len(sessions') <= 1

UnlimitedCouponForms == {form \in CouponForms : form.max_uses_total = 0}

NextConc ==
    \/ \E form \in UnlimitedCouponForms : AdminAddCouponCode("SAVE", form)
    \/ \E payload \in DraftPayloads : ApiCheckoutDraft(1, payload)
    \/ \E a \in Addresses : ApiCheckoutStripeSession(1, a, <<>>) /\ FirstSessionOnly
    \/ \E p \in Procs : WebhookBegin(p, 1)
    \/ \E p \in Procs : WebhookFindTransaction(p)
    \/ \E p \in Procs : PlaceBegin(p, 1)
    \/ \E p \in Procs : GetDraft(p)
    \/ \E p \in Procs : MarkCoupon(p)
    \/ \E p \in Procs : CreateOrder(p)
    \/ \E p \in Procs : CreateTransaction(p)
    \/ \E p \in Procs : AttachTransaction(p)
    \/ \E p \in Procs : EmptyCart(p)
    \/ \E p \in Procs : DeleteDraft(p)

SpecConc == Init /\ [][NextConc]_vars

\* ------------------------------------------------------- order id hand-out
\* create_order_from_draft in two steps: the id is drawn from the counter, and
\* the document is inserted later; other requests run in between, and a
\* handler may fail at any storage call.
DrawOrderId(p) ==
    /\ Running(p, "create_order")
    /\ counters < MaxOrders
    /\ counters' = next_sequence(counters)
    /\ procs' = [procs EXCEPT ![p].pc = "insert_order", ![p].order_id = next_sequence(counters)]
    /\ UNCHANGED <<coupon_codes, carts, checkout_drafts, orders, transaction_logs,
                   sessions, now, acked, made, totals>>

InsertOrder(p) ==
    LET me == procs[p]
        draft == me.draft[1]
        webhook == me.op = "webhook"
    IN  /\ Running(p, "insert_order")
        /\ orders' = Append(orders,
                            order_doc(me.order_id, me.customer_id, draft,
                                      IF webhook THEN "online" ELSE "cod",
                                      IF webhook THEN draft.shipping_address ELSE "addr",
                                      IF webhook THEN draft.notes ELSE <<>>, now))
        /\ made' = IF webhook THEN made \cup {<<me.ref, me.order_id>>} ELSE made
        /\ procs' = [procs EXCEPT ![p].pc = "create_transaction"]
        /\ UNCHANGED <<coupon_codes, carts, checkout_drafts, transaction_logs,
                       counters, sessions, now, acked, totals>>

\* the insert a handler is about to make, of the order or of the transaction,
\* raises: api_checkout_place ends with the framework's 500, stripe_webhook
\* with its own "webhook error"
Raise(p) ==
    /\ procs[p].pc \in {"insert_order", "create_transaction"}
    /\ procs' = [procs EXCEPT ![p] =
                    IF procs[p].op = "webhook" THEN Respond(p, 500, "webhook error")
                    ELSE Respond(p, 500, "Internal Server Error")]
    /\ UNCHANGED <<coupon_codes, carts, checkout_drafts, orders, transaction_logs,
                   counters, sessions, now, acked, made, totals>>

NextIds ==
    \/ \E payload \in PlainPayloads : ApiCheckoutDraft(1, payload)
    \/ \E a \in Addresses : ApiCheckoutStripeSession(1, a, <<>>) /\ FirstSessionOnly
    \/ SeedOrders(2, "delivered", "cod")
    \/ \E p \in Procs : WebhookBegin(p, 1)
    \/ \E p \in Procs : WebhookFindTransaction(p)
    \/ \E p \in Procs : PlaceBegin(p, 1)
    \/ \E p \in Procs : GetDraft(p)
    \/ \E p \in Procs : MarkCoupon(p)
    \/ \E p \in Procs : DrawOrderId(p)
    \/ \E p \in Procs : InsertOrder(p)
    \/ \E p \in Procs : CreateTransaction(p)
    \/ \E p \in Procs : AttachTransaction(p)
    \/ \E p \in Procs : EmptyCart(p)
    \/ \E p \in Procs : DeleteDraft(p)
    \/ \E p \in Procs : Raise(p)

SpecIds == Init /\ [][NextIds]_vars

\* the handlers that hold a drawn id whose order is not inserted yet
Holders == {p \in Procs : procs[p].pc = "insert_order"}

\* C11: no two materializations (COD checkout, payment callback, seeding)
\* receive the same order id, whatever their interleaving: the ids of the
\* stored orders and the ids held by handlers in flight are pairwise
\* different; each hand-out gives the counter's next value, above every id
\* handed out before, so the ids come in strictly increasing order and the id
\* of a materialization that failed is never given again.
OrderIdsUnique ==
    /\ [](/\ \A i \in 1..Len(orders), j \in 1..Len(orders) :
                i # j => orders[i].order_id # orders[j].order_id
          /\ \A p \in Holders :
                /\ \A i \in 1..Len(orders) : orders[i].order_id # procs[p].order_id
                /\ \A q \in Holders \ {p} : procs[q].order_id # procs[p].order_id
          /\ \A i \in 1..Len(orders) : orders[i].order_id <= counters
          /\ \A p \in Holders : procs[p].order_id <= counters)
    /\ [][/\ counters' >= counters
          /\ counters' # counters =>
                /\ counters' = counters + 1
                /\ \/ \E p \in Procs : p \in Holders' /\ procs'[p].order_id = counters'
                   \/ /\ Len(orders') = Len(orders) + 1
                      /\ orders'[Len(orders')].order_id = counters']_vars

\* two handlers in flight have each drawn an id and inserted no order yet
OrderIdsUniqueWitness ==
    \E p \in Procs, q \in Procs : p # q /\ p \in Holders /\ q \in Holders

\* ------------------------------------------------------ the totals calculator
\* amounts in cents a caller can pass: negative, zero, a value whose tax falls
\* on half a cent, the values of the documented examples
SubtotalInputs == {-100, 0, 25, 1000, 5000, 8000, 10000}
DiscountInputs == {-100, 0, 500, 2000, 5000, 99900}
ShippingInputs == {0, 500}

\* compute_totals(subtotal, discount_amount), called with the parameters it has
ComputeTotals(subtotal, discount_amount) ==
    LET kw == [subtotal |-> subtotal, discount_amount |-> discount_amount]
        call == call_compute_totals(kw)
    IN  /\ \E r \in call.results : totals' = [kw |-> kw, raised |-> call.raised, result |-> <<r>>]
        /\ UNCHANGED <<coupon_codes, carts, checkout_drafts, orders, transaction_logs,
                       counters, sessions, now, acked, made, procs>>

\* compute_totals(subtotal=..., discount_amount=..., shipping_fee=...), the
\* call api_apply_coupon makes for a refused and for an applied coupon
ComputeTotalsWithShipping(subtotal, discount_amount, shipping_fee) ==
    LET kw == [subtotal |-> subtotal, discount_amount |-> discount_amount,
               shipping_fee |-> shipping_fee]
        call == call_compute_totals(kw)
    IN  /\ IF call.raised # ""
           THEN totals' = [kw |-> kw, raised |-> call.raised, result |-> <<>>]
           ELSE \E r \in call.results :
                   totals' = [kw |-> kw, raised |-> call.raised, result |-> <<r>>]
        /\ UNCHANGED <<coupon_codes, carts, checkout_drafts, orders, transaction_logs,
                       counters, sessions, now, acked, made, procs>>

NextTotals ==
    \/ \E subtotal \in SubtotalInputs, discount_amount \in DiscountInputs :
          ComputeTotals(subtotal, discount_amount)
    \/ \E subtotal \in SubtotalInputs, discount_amount \in DiscountInputs,
          shipping_fee \in ShippingInputs :
          ComputeTotalsWithShipping(subtotal, discount_amount, shipping_fee)

SpecTotals == Init /\ [][NextTotals]_vars

\* C9: a call of compute_totals with a subtotal, a discount between 0 and the
\* subtotal and a shipping fee returns discounted_subtotal = subtotal -
\* discount, tax = 6% of it to the cent, the shipping fee it was given, and
\* total = discounted_subtotal + tax + shipping fee.
TotalsIncludeShipping ==
    ( /\ "shipping_fee" \in DOMAIN totals.kw
      /\ 0 <= totals.kw.discount_amount
      /\ totals.kw.discount_amount <= totals.kw.subtotal ) =>
        /\ totals.raised = ""
        /\ totals.result # <<>>
        /\ LET r == totals.result[1]
               ds == totals.kw.subtotal - totals.kw.discount_amount
           IN  /\ "shipping_fee" \in DOMAIN r
               /\ r.discounted_subtotal = ds
               /\ r.tax \in round2(ds * 6, 100)
               /\ r.shipping_fee = totals.kw.shipping_fee
               /\ r.total = ds + r.tax + totals.kw.shipping_fee

\* C10: every call of compute_totals, whatever the subtotal, the discount and
\* the shipping fee, returns 0 <= discount_amount <= subtotal and a
\* discounted_subtotal, tax and total that are not negative; a discount above
\* the subtotal comes back as the subtotal, with discounted_subtotal, tax and
\* total 0 when no shipping is charged.
TotalsClamped ==
    DOMAIN totals.kw # {} =>
        /\ totals.raised = ""
        /\ totals.result # <<>>
        /\ LET r == totals.result[1]
           IN  /\ 0 <= r.discount_amount
               /\ r.discount_amount <= r.subtotal
               /\ r.discounted_subtotal >= 0
               /\ r.tax >= 0
               /\ r.total >= 0
               /\ totals.kw.discount_amount > Max(0, totals.kw.subtotal) =>
                     /\ r.discount_amount = Max(0, totals.kw.subtotal)
                     /\ r.discounted_subtotal = 0
                     /\ r.tax = 0

\* ------------------------------------------------- order status properties
\* the transition table of the order state machine, edge by edge
LegalEdges ==
    { <<"pending", "confirmed">>, <<"pending", "canceled">>, <<"confirmed", "packed">>,
      <<"packed", "out_for_delivery">>, <<"out_for_delivery", "delivered">> }

TimestampFields ==
    {"ordered_at", "confirmed_at", "packed_at", "out_for_delivery_at", "delivered_at",
     "canceled_at"}

\* the timestamp field associated with a status
TimestampOf(status) ==
    CASE status = "confirmed" -> "confirmed_at"
      [] status = "packed" -> "packed_at"
      [] status = "out_for_delivery" -> "out_for_delivery_at"
      [] status = "delivered" -> "delivered_at"
      [] status = "canceled" -> "canceled_at"

OrderIds == {orders[i].order_id : i \in 1..Len(orders)}
OrderById(order_id) == orders[first_index(orders, order_id)]

\* the requested edge of a status change is in the table
RequestsLegalEdge(order_id, new_status_in) ==
    /\ order_id \in OrderIds
    /\ <<OrderById(order_id).order_status, strip_status(new_status_in)>> \in LegalEdges

\* the order ids an admin can name: those on file and one not yet given out
RequestableIds == OrderIds \cup {counters + 1}

\* C4: a status change succeeds if and only if the order exists and the edge
\* from its current status to the requested status (surrounding blanks
\* dropped) is one of the five edges of the table: then the call reports ok
\* and the order takes the requested status.  Every other request reports
\* ok=false and leaves every order (status, timestamps, notes) and every
\* transaction as it was.
TransitionLegality ==
    /\ [](\A oid \in RequestableIds, s \in StatusInputs :
             RequestsLegalEdge(oid, s) <=> update_order_status_detail(orders, oid, s) = "")
    /\ [][\A oid \in RequestableIds, s \in StatusInputs :
             IF RequestsLegalEdge(oid, s)
             THEN \A m \in AdminMessages :
                     UpdateOrderStatus(oid, s, m, "none") =>
                        orders'[first_index(orders, oid)].order_status = strip_status(s)
             ELSE (orders' # orders \/ transaction_logs' # transaction_logs) =>
                     \A m \in AdminMessages : ~UpdateOrderStatus(oid, s, m, "none")]_vars

\* an order was confirmed and packed, and is still packed after the clock
\* moved on: the request packed -> delivered was open to the admin
TransitionLegalityWitness ==
    \E i \in 1..Len(orders) :
        /\ orders[i].order_status = "packed"
        /\ orders[i].packed_at # 0
        /\ now > orders[i].packed_at

SingleTimestamp ==
    [][\A oid \in RequestableIds, s \in StatusInputs :
          RequestsLegalEdge(oid, s) =>
             \A m \in AdminMessages :
                UpdateOrderStatus(oid, s, m, "none") =>
                   LET i == first_index(orders, oid)
                       field == TimestampOf(strip_status(s))
                   IN  /\ orders'[i][field] = now
                       /\ \A k \in TimestampFields \ {field} :
                             orders'[i][k] = orders[i][k]]_vars

\* an order went packed -> out_for_delivery at a later instant than it was
\* packed: out_for_delivery_at is set, packed_at kept its earlier value
SingleTimestampWitness ==
    \E i \in 1..Len(orders) :
        /\ orders[i].order_status = "out_for_delivery"
        /\ orders[i].packed_at # 0
        /\ orders[i].out_for_delivery_at > orders[i].packed_at

\* C7: delivering a COD order whose attached transaction is pending turns that
\* transaction, and no other, to succeeded; delivering an online order, and any
\* change to a status other than delivered, leaves every transaction's status
\* as it was.
CodDeliveryReconciliation ==
    [][\A oid \in RequestableIds, s \in StatusInputs :
          RequestsLegalEdge(oid, s) =>
             \A m \in AdminMessages :
                UpdateOrderStatus(oid, s, m, "none") =>
                   LET o == OrderById(oid)
                   IN  /\ Len(transaction_logs') = Len(transaction_logs)
                       /\ \A j \in 1..Len(transaction_logs) :
                             transaction_logs'[j].status =
                                IF /\ strip_status(s) = "delivered"
                                   /\ o.payment_method = "cod"
                                   /\ transaction_logs[j].transaction_id = o.payment_transaction_id
                                   /\ transaction_logs[j].status = "pending"
                                THEN "succeeded"
                                ELSE transaction_logs[j].status]_vars

\* a delivered COD order with its transaction succeeded, beside an online
\* order that was moved on and a transaction left as it was
CodDeliveryReconciliationWitness ==
    /\ \E i \in 1..Len(orders), j \in 1..Len(transaction_logs) :
          /\ orders[i].order_status = "delivered"
          /\ orders[i].payment_method = "cod"
          /\ transaction_logs[j].transaction_id = orders[i].payment_transaction_id
          /\ transaction_logs[j].payment_method = "cod"
          /\ transaction_logs[j].status = "succeeded"
    /\ \E i \in 1..Len(orders) :
          /\ orders[i].order_status = "delivered"
          /\ orders[i].payment_method = "online"

\* ----------------------------------------------------- checkout properties
\* the orders created for payment reference ref, and its succeeded transactions
OrdersMadeFor(ref) == {m \in made : m[1] = ref}
SucceededFor(txs, ref) ==
    {i \in 1..Len(txs) :
        /\ txs[i].provider = "stripe"
        /\ txs[i].provider_payment_intent_id = ref
        /\ txs[i].status = "succeeded"}

\* the transactions that carry payment reference ref
TransactionsFor(txs, ref) ==
    {i \in 1..Len(txs) :
        txs[i].provider = "stripe" /\ txs[i].provider_payment_intent_id = ref}

\* C2: in every reachable state, the interleavings of two callbacks for the
\* same payment reference included, at most one transaction carries a given
\* payment reference and at most one order was created for it.
OnePerPaymentReference ==
    \A ref \in 1..Len(sessions) :
        /\ Cardinality(TransactionsFor(transaction_logs, ref)) <= 1
        /\ Cardinality(OrdersMadeFor(ref)) <= 1

AlreadyUsed == <<[ok |-> FALSE, message |-> "You have already used this coupon."]>>

Occurrences(seq, x) == Cardinality({i \in 1..Len(seq) : seq[i] = x})

\* C3: for a coupon open to all with no cap on total uses, a redeem attempt
\* of a customer who is not yet among the coupon's users succeeds, appends the
\* customer and adds one to uses_total; an attempt of a customer who is
\* already among them is refused with "already used" and changes nothing (the
\* COD checkout answers 400 with that message).  So of two attempts in flight
\* for one customer exactly one succeeds: the customer is never listed twice
\* and uses_total counts the listed customers.
RedeemOncePerCustomer ==
    /\ [](\A code \in Codes :
             (coupon_codes[code] # NoDoc /\ coupon_codes[code][1].max_uses_total = 0) =>
                /\ \A c \in Customers :
                      Occurrences(coupon_codes[code][1].customer_ids_who_used, c) <= 1
                /\ coupon_codes[code][1].uses_total =
                      Len(coupon_codes[code][1].customer_ids_who_used))
    /\ [][\A p \in Procs :
             ( /\ Running(p, "mark_coupon")
               /\ _normalize_coupon_code(procs[p].draft[1].coupon_code) \in Codes
               /\ coupon_codes[_normalize_coupon_code(procs[p].draft[1].coupon_code)] # NoDoc
               /\ MarkCoupon(p) ) =>
                LET code == _normalize_coupon_code(procs[p].draft[1].coupon_code)
                    doc == coupon_codes[code][1]
                    c == procs[p].customer_id
                IN  IF Occurrences(doc.customer_ids_who_used, c) > 0
                    THEN /\ procs'[p].mark = AlreadyUsed
                         /\ procs'[p].pc = "done"
                         /\ procs[p].op = "place" =>
                               /\ procs'[p].status = 400
                               /\ procs'[p].message = "You have already used this coupon."
                         /\ coupon_codes' = coupon_codes
                    ELSE /\ procs'[p].mark # <<>>
                         /\ procs'[p].mark[1].ok
                         /\ procs'[p].pc = "create_order"
                         /\ coupon_codes'[code][1].customer_ids_who_used =
                               Append(doc.customer_ids_who_used, c)
                         /\ coupon_codes'[code][1].uses_total = doc.uses_total + 1]_vars

\* two checkouts of one customer both read the draft with the coupon; one has
\* redeemed it and is about to create its order, the other was refused with
\* "already used"; the coupon lists the customer once and counts one use
RedeemOncePerCustomerWitness ==
    \E p \in Procs, q \in Procs :
        /\ p # q
        /\ procs[p].customer_id = procs[q].customer_id
        /\ procs[p].pc = "create_order"
        /\ procs[p].mark # <<>>
        /\ procs[p].mark[1].ok
        /\ procs[q].mark = AlreadyUsed
        /\ coupon_codes["SAVE"] # NoDoc
        /\ coupon_codes["SAVE"][1].customer_ids_who_used = <<procs[p].customer_id>>
        /\ coupon_codes["SAVE"][1].uses_total = 1

\* C1: deliveries of the same payment-completion event, one after another,
\* leave at most one order and one succeeded transaction for its reference,
\* and a delivery that follows an acknowledged one changes no order,
\* transaction, coupon, cart or draft.
ReplayIdempotent ==
    [][\A ref \in 1..Len(sessions) :
          /\ Cardinality(OrdersMadeFor(ref)') <= 1
          /\ Cardinality(SucceededFor(transaction_logs', ref)) <= 1
          /\ ref \in acked =>
                \A sig_ok \in BOOLEAN, f \in Faults :
                   StripeWebhook(ref, sig_ok, f) =>
                      UNCHANGED <<orders, transaction_logs, coupon_codes, carts,
                                  checkout_drafts>>]_vars

\* C8: a checkout handler (COD or payment callback) in which a storage call
\* fails leaves the customer's draft as it was, and a draft disappears only in
\* a step that has persisted an order of that customer with the draft's lines
\* and total.
DraftSurvival ==
    [][/\ checkout_drafts' # checkout_drafts =>
             /\ \A pm \in PaymentMethods, a \in Addresses, f \in Faults \ {"none"} :
                   ~ApiCheckoutPlace(1, pm, a, <<>>, f)
             /\ \A ref \in 1..Len(sessions), sig_ok \in BOOLEAN, f \in Faults \ {"none"} :
                   ~StripeWebhook(ref, sig_ok, f)
       /\ \A c \in Customers :
             (checkout_drafts[c] # <<>> /\ checkout_drafts'[c] = <<>>) =>
                /\ Len(orders') = Len(orders) + 1
                /\ orders'[Len(orders')].customer_id = c
                /\ orders'[Len(orders')].items = checkout_drafts[c][1].items
                /\ orders'[Len(orders')].total = checkout_drafts[c][1].total]_vars

\* a checkout failed after its order insert (the order has no transaction
\* attached) and the customer's draft is still there, with the order's total
DraftSurvivalWitness ==
    \E i \in 1..Len(orders) :
        /\ orders[i].payment_transaction_id = 0
        /\ checkout_drafts[orders[i].customer_id] # <<>>
        /\ checkout_drafts[orders[i].customer_id][1].total = orders[i].total

\* ------------------------------------------------------- coupons in use
\* admin: POST /core/ops/admin/api/coupon-codes/update/{code}
AdminUpdateCouponCode(code_in, form) ==
    /\ coupon_codes' = update_coupon_code_by_code(coupon_codes, code_in, form)
    /\ UNCHANGED <<carts, checkout_drafts, orders, transaction_logs,
                   counters, sessions, now, acked, made, procs, totals>>

\* A faulty handler: validating an acceptable coupon also counts a use of it.
ApiApplyCouponRedeems(customer_id, code, subtotal_in, shipping_fee) ==
    LET subtotal == Max(0, subtotal_in)
        result == validate_coupon_for_subtotal(coupon_codes, code, customer_id, subtotal, now)
        kw == [subtotal |-> subtotal, discount_amount |-> 0, shipping_fee |-> shipping_fee]
    IN  /\ coupon_codes' = IF result.ok
                           THEN mark_coupon_used(coupon_codes, code, customer_id).coupon_codes
                           ELSE coupon_codes
        /\ \E discount_amount \in (IF result.ok THEN result.discount_amounts ELSE {0}) :
              totals' = [kw |-> [kw EXCEPT !.discount_amount = discount_amount],
                         raised |-> call_compute_totals(kw).raised, result |-> <<>>]
        /\ UNCHANGED <<carts, checkout_drafts, orders, transaction_logs,
                       counters, sessions, now, acked, made, procs>>

\* POST /api/coupons/apply: the coupon is validated and the totals are
\* computed with the discount it gives, with none when it is refused
ApiApplyCoupon(customer_id, code, subtotal_in, shipping_fee) ==
    LET subtotal == Max(0, subtotal_in)
        result == validate_coupon_for_subtotal(coupon_codes, code, customer_id, subtotal, now)
    IN  \E discount_amount \in (IF result.ok THEN result.discount_amounts ELSE {0}) :
            ComputeTotalsWithShipping(subtotal, discount_amount, shipping_fee)

CouponPayloads == DraftPayloads \ PlainPayloads

\* Coupons from creation to redemption: the admin creates and edits the
\* coupon, customers look at what it gives them and redeem it at a
\* cash-on-delivery checkout.  Every request runs to completion before the
\* next one starts and no storage call fails.
NextCoupons ==
    \/ \E code \in CodeInputs, form \in CouponForms : AdminAddCouponCode(code, form)
    \/ \E code \in CodeInputs, form \in CouponForms : AdminUpdateCouponCode(code, form)
    \/ \E c \in Customers, payload \in CouponPayloads : ApiCheckoutDraft(c, payload)
    \/ \E c \in Customers, code \in CodeInputs, subtotal \in {1000, 2000} :
          ApiApplyCoupon(c, code, subtotal, 500)
    \/ \E c \in Customers, a \in Addresses : ApiCheckoutPlace(c, "cod", a, <<>>, "none")

SpecCoupons == Init /\ [][NextCoupons]_vars

\* C12: a coupon with a cap on its uses (max_uses_total > 0) has never been
\* used more often than the cap allows, whatever coupons were created, edited
\* by the admin, validated and redeemed.
UsesWithinCap ==
    \A code \in Codes :
        coupon_codes[code] # NoDoc =>
            LET coupon == coupon_codes[code][1]
            IN  coupon.max_uses_total > 0 => coupon.uses_total <= coupon.max_uses_total

\* C14: validate(code, customer_id, subtotal) changes nothing: whatever the
\* code, the customer and the subtotal, and whether the coupon is accepted or
\* refused, the coupons (uses_total and customer_ids_who_used with them), the
\* drafts, the carts, the orders, the transactions and the order counter are
\* after the call what they were before it.
ValidateMutatesNothing ==
    [][\A c \in Customers, code \in CodeInputs, subtotal \in {1000, 2000} :
          ApiApplyCoupon(c, code, subtotal, 500) =>
              UNCHANGED <<coupon_codes, carts, checkout_drafts, orders,
                          transaction_logs, counters>>]_vars

\* an accepted validation of a coupon that another customer has redeemed
ValidateMutatesNothingWitness ==
    /\ DOMAIN totals.kw # {}
    /\ totals.kw.discount_amount = 500
    /\ coupon_codes["SAVE"] # NoDoc
    /\ coupon_codes["SAVE"][1].uses_total = 1

\* ------------------------------------------------ orders made and seeded
\* Orders of a cash-on-delivery checkout and orders the seeding helper
\* inserts, in any status, with the admin's status changes; every request
\* runs to completion before the next one starts.
NextOrders ==
    \/ \E payload \in PlainPayloads : ApiCheckoutDraft(1, payload)
    \/ \E a \in Addresses : ApiCheckoutPlace(1, "cod", a, <<>>, "none")
    \/ \E s \in Statuses : SeedOrders(2, s, "online")
    \/ \E oid \in 1..(MaxOrders + 1), s \in StatusInputs :
          UpdateOrderStatus(oid, s, <<>>, "none")

SpecOrders == Init /\ [][NextOrders]_vars

\* C13: a delivered order has delivered_at set and canceled_at null, a
\* canceled order has canceled_at set and delivered_at null, and an order in a
\* non-terminal status has both null.
TerminalTimestamps ==
    \A i \in 1..Len(orders) :
        LET o == orders[i]
        IN  /\ o.order_status = "delivered" => o.delivered_at # 0 /\ o.canceled_at = 0
            /\ o.order_status = "canceled" => o.canceled_at # 0 /\ o.delivered_at = 0
            /\ o.order_status \in OPEN_STATUSES => o.delivered_at = 0 /\ o.canceled_at = 0

\* a checkout's order was taken to delivered by the admin, next to a seeded
\* order that is canceled
TerminalTimestampsWitness ==
    \E i, j \in 1..Len(orders) :
        /\ orders[i].order_status = "delivered"
        /\ orders[i].payment_transaction_id # 0
        /\ orders[j].order_status = "canceled"
        /\ orders[j].payment_transaction_id = 0

\* ------------------------------------------- what the checkout handlers answer
\* the callback for payment session ref gets as far as redeeming the draft's
\* coupon, and the redemption is refused
CallbackRefusal(ref) ==
    LET customer_id == sessions[ref].customer_id
        d == get_checkout_draft(checkout_drafts, customer_id)
    IN  /\ ~stripe_transaction_exists(transaction_logs, ref)
        /\ d # <<>>
        /\ d[1].shipping_address # ""
        /\ _normalize_coupon_code(d[1].coupon_code) # ""
        /\ ~redeem_draft_coupon(coupon_codes, d[1], customer_id).ok

\* C15: a callback whose draft carries a coupon that is refused at redemption
\* still inserts the order with payment_method = online and a succeeded
\* transaction for the payment reference, clears the cart and the draft, and
\* is acknowledged.
CouponFailureOnlyLogged ==
    [][\A ref \in 1..Len(sessions) :
          CallbackRefusal(ref) =>
             (StripeWebhook(ref, TRUE, "none") =>
                 LET customer_id == sessions[ref].customer_id
                 IN  /\ Len(orders') = Len(orders) + 1
                     /\ orders'[Len(orders')].payment_method = "online"
                     /\ orders'[Len(orders')].customer_id = customer_id
                     /\ SucceededFor(transaction_logs', ref) # {}
                     /\ carts'[customer_id] = <<>>
                     /\ checkout_drafts'[customer_id] = <<>>
                     /\ ref \in acked')]_vars

\* C16: a callback whose signature check passed is answered with a 2xx status
\* whatever happens afterwards, a storage call that raises included.
AcknowledgedAfterSignature ==
    \A ref \in 1..Len(sessions), f \in Faults :
        stripe_webhook_status(ref, TRUE, f) \in 200..299

\* the customer's draft carries a coupon, and the redemption is refused
CodRefusal(customer_id) ==
    LET d == get_checkout_draft(checkout_drafts, customer_id)
    IN  /\ d # <<>>
        /\ _normalize_coupon_code(d[1].coupon_code) # ""
        /\ ~redeem_draft_coupon(coupon_codes, d[1], customer_id).ok

\* C17: a cash-on-delivery checkout whose draft carries a coupon that is
\* refused at redemption is answered with an error, and it creates no order
\* and no transaction, draws no order id, and leaves the customer's cart and
\* draft as they were.
CodCouponRefusalRejects ==
    /\ [](\A c \in Customers :
             CodRefusal(c) => checkout_place_response(c, "cod", "none").status >= 400)
    /\ [][\A c \in Customers :
             (/\ CodRefusal(c)
              /\ <<orders, transaction_logs, counters, carts, checkout_drafts>>' #
                    <<orders, transaction_logs, counters, carts, checkout_drafts>>) =>
                \A a \in Addresses : ~ApiCheckoutPlace(c, "cod", a, <<>>, "none")]_vars

\* the customer has redeemed the coupon with an earlier order and comes to the
\* checkout with a new draft that carries it again
CodCouponRefusalRejectsWitness ==
    /\ CodRefusal(1)
    /\ coupon_codes["SAVE"] # NoDoc
    /\ coupon_codes["SAVE"][1].customer_ids_who_used = <<1>>
    /\ Len(orders) = 1

\* C18: a callback that finds no draft for its customer is acknowledged and
\* does nothing: no order, no transaction, no coupon redemption, no order id
\* drawn; cart and drafts stay as they are.
MissingDraftNoOp ==
    /\ [](\A ref \in 1..Len(sessions) :
             get_checkout_draft(checkout_drafts, sessions[ref].customer_id) = <<>> =>
                stripe_webhook_status(ref, TRUE, "none") = 200)
    /\ [][\A ref \in 1..Len(sessions) :
             get_checkout_draft(checkout_drafts, sessions[ref].customer_id) = <<>> =>
                (StripeWebhook(ref, TRUE, "none") =>
                    /\ ref \in acked'
                    /\ UNCHANGED <<orders, transaction_logs, coupon_codes, counters,
                                   carts, checkout_drafts, made>>)]_vars

\* a callback was acknowledged for a session whose draft had been consumed by
\* a cash-on-delivery order: nothing was made for its payment reference
MissingDraftNoOpWitness ==
    \E ref \in acked :
        /\ get_checkout_draft(checkout_drafts, sessions[ref].customer_id) = <<>>
        /\ OrdersMadeFor(ref) = {}
        /\ TransactionsFor(transaction_logs, ref) = {}
        /\ Len(orders) = 1

\* ------------------------------------------- the checkout_drafts collection
\* The collection document by document: in the specification of this section
\* checkout_drafts is the sequence of the documents
\* {customer_id, draft, updated_at} in insertion order, and the store's three
\* functions are the pymongo calls they make.  That a customer never has two
\* documents is what lets the other specifications keep one slot per customer.

\* the positions of the documents that match {"customer_id": customer_id}
matching(coll, customer_id) == {i \in 1..Len(coll) : coll[i].customer_id = customer_id}

first_match(coll, customer_id) ==
    CHOOSE i \in matching(coll, customer_id) : \A j \in matching(coll, customer_id) : i <= j

\* A faulty upsert: a new document is inserted whether or not one matches.
update_one_always_inserts(coll, customer_id, draft, t) ==
    Append(coll, [customer_id |-> customer_id, draft |-> draft, updated_at |-> t])

\* update_one({"customer_id": c}, {"$set": {"draft": d, "updated_at": t}}, upsert=True)
update_one_upsert(coll, customer_id, draft, t) ==
    IF matching(coll, customer_id) = {}
    THEN Append(coll, [customer_id |-> customer_id, draft |-> draft, updated_at |-> t])
    ELSE [coll EXCEPT ![first_match(coll, customer_id)] =
            [@ EXCEPT !.draft = draft, !.updated_at = t]]

\* find_one({"customer_id": c}) and doc.get("draft"): <<>> for None
find_one_draft(coll, customer_id) ==
    IF matching(coll, customer_id) = {} THEN <<>>
    ELSE <<coll[first_match(coll, customer_id)].draft>>

\* delete_one({"customer_id": c})
delete_one(coll, customer_id) ==
    IF matching(coll, customer_id) = {} THEN coll
    ELSE LET k == first_match(coll, customer_id)
         IN  [i \in 1..(Len(coll) - 1) |-> IF i < k THEN coll[i] ELSE coll[i + 1]]

\* the drafts the handlers store: the payload of POST /api/checkout/draft, and
\* the same with the shipping data POST /api/checkout/stripe-session adds
StoredDrafts ==
    { [draft_of(payload) EXCEPT !.shipping_address = a, !.notes = n] :
          payload \in DraftPayloads, a \in {""} \cup Addresses, n \in NoteInputs }

InitDrafts ==
    /\ coupon_codes = [c \in Codes |-> NoDoc]
    /\ carts = [c \in Customers |-> <<>>]
    /\ checkout_drafts = <<>>
    /\ orders = <<>>
    /\ transaction_logs = <<>>
    /\ counters = 0
    /\ sessions = <<>>
    /\ now = 1
    /\ acked = {}
    /\ made = {}
    /\ procs = [p \in Procs |-> Idle]
    /\ totals = NoTotals

DraftStoreUpsert(customer_id, draft) ==
    /\ checkout_drafts' = update_one_upsert(checkout_drafts, customer_id, draft, now)
    /\ UNCHANGED <<coupon_codes, carts, orders, transaction_logs,
                   counters, sessions, now, acked, made, procs, totals>>

DraftStoreDelete(customer_id) ==
    /\ checkout_drafts' = delete_one(checkout_drafts, customer_id)
    /\ UNCHANGED <<coupon_codes, carts, orders, transaction_logs,
                   counters, sessions, now, acked, made, procs, totals>>

NextDrafts ==
    \/ \E c \in Customers, d \in StoredDrafts : DraftStoreUpsert(c, d)
    \/ \E c \in Customers : DraftStoreDelete(c)

SpecDrafts == InitDrafts /\ [][NextDrafts]_vars

\* C19: the draft store holds at most one draft per customer; after
\* upsert(c, d) get(c) gives d and no document of c holds anything else, after
\* delete(c) get(c) gives none, and neither call changes what get gives for
\* another customer.
DraftStoreLaws ==
    /\ [](\A c \in Customers : Cardinality(matching(checkout_drafts, c)) <= 1)
    /\ [][\A c \in Customers :
             /\ \A d \in StoredDrafts :
                   DraftStoreUpsert(c, d) =>
                      /\ find_one_draft(checkout_drafts', c) = <<d>>
                      /\ \A i \in matching(checkout_drafts', c) : checkout_drafts'[i].draft = d
                      /\ \A o \in Customers \ {c} :
                            find_one_draft(checkout_drafts', o) = find_one_draft(checkout_drafts, o)
             /\ DraftStoreDelete(c) =>
                   /\ find_one_draft(checkout_drafts', c) = <<>>
                   /\ \A o \in Customers \ {c} :
                         find_one_draft(checkout_drafts', o) = find_one_draft(checkout_drafts, o)]_vars

\* customer 2 stored a draft after customer 1, and customer 1's draft was
\* replaced by one with shipping data while customer 2's stayed as it was
DraftStoreLawsWitness ==
    /\ Len(checkout_drafts) = 2
    /\ checkout_drafts[1].customer_id = 1
    /\ checkout_drafts[1].draft.shipping_address = "addr"
    /\ checkout_drafts[2].customer_id = 2
    /\ checkout_drafts[2].draft.shipping_address = ""

\* -------------------------------------------------- the order of the checks
\* The coupon documents validate can meet: the ones create_coupon_code and
\* update_coupon_code_by_code write and redemptions advance, and documents
\* put into the collection with a discount those two refuse, the case the
\* last check of validate is there for.
CouponDocuments ==
    { [code |-> "SAVE",
       discount_type |-> dt[1], discount_value |-> dt[2],
       min_order_subtotal |-> ms,
       audience |-> aud, eligible_customer_ids |-> IF aud = "all" THEN {} ELSE {2},
       max_uses_total |-> mx, uses_total |-> Len(used), customer_ids_who_used |-> used,
       starts_at |-> st, ends_at |-> en] :
          dt \in {<<"amount", 500>>, <<"percent", 10>>, <<"", 500>>, <<"amount", 0>>},
          ms \in {0, 1500}, aud \in {"all", "customers"}, mx \in {0, 1},
          used \in {<<>>, <<1>>, <<2>>}, st \in {0, 3}, en \in {0, 1} }

InitValidate ==
    /\ coupon_codes \in {[c \in Codes |-> doc] :
                            doc \in {NoDoc} \cup {<<d>> : d \in CouponDocuments}}
    /\ now \in 1..MaxNow
    /\ carts = [c \in Customers |-> <<>>]
    /\ checkout_drafts = [c \in Customers |-> <<>>]
    /\ orders = <<>>
    /\ transaction_logs = <<>>
    /\ counters = 0
    /\ sessions = <<>>
    /\ acked = {}
    /\ made = {}
    /\ procs = [p \in Procs |-> Idle]
    /\ totals = NoTotals

\* a request handler calls validate_coupon_for_subtotal and holds what it
\* passed (draft) and what came back (mark)
ValidateCoupon(p, code, customer_id, subtotal) ==
    /\ procs' = [procs EXCEPT ![p] =
                    [Idle EXCEPT
                       !.pc = "validated",
                       !.op = "validate",
                       !.customer_id = customer_id,
                       !.draft = <<[coupon_code |-> code, subtotal |-> subtotal]>>,
                       !.mark = <<validate_coupon_for_subtotal(coupon_codes, code, customer_id,
                                                               subtotal, now)>>]]
    /\ UNCHANGED <<coupon_codes, carts, checkout_drafts, orders, transaction_logs,
                   counters, sessions, now, acked, made, totals>>

NextValidate ==
    \E code \in CodeInputs, c \in Customers, subtotal \in {1000, 2000} :
        ValidateCoupon("p1", code, c, subtotal)

SpecValidate == InitValidate /\ [][NextValidate]_vars

\* the messages of the nine checks, in the order the checks are to be made
CheckMessages ==
    << "Please enter a coupon code.",
       "Invalid coupon code.",
       "This coupon is not active yet.",
       "This coupon has expired.",
       "Minimum order subtotal is $... for this coupon.",
       "This coupon is not available for your account.",
       "This coupon has reached its maximum number of uses.",
       "You have already used this coupon.",
       "This coupon is configured incorrectly. Please contact support." >>

\* which of the nine checks the input fails, each looked at on its own
FailedChecks(cc, code_in, customer_id, subtotal, t) ==
    LET code == _normalize_coupon_code(code_in)
        found == code \in DOMAIN cc /\ cc[code] # NoDoc
        coupon == cc[code][1]
    IN  { k \in 1..9 :
            CASE k = 1 -> code = ""
              [] k = 2 -> code # "" /\ ~found
              [] k = 3 -> found /\ coupon.starts_at # 0 /\ t < coupon.starts_at
              [] k = 4 -> found /\ coupon.ends_at # 0 /\ t > coupon.ends_at
              [] k = 5 -> found /\ subtotal < coupon.min_order_subtotal
              [] k = 6 -> found /\ coupon.audience = "customers"
                                /\ customer_id \notin coupon.eligible_customer_ids
              [] k = 7 -> found /\ coupon.max_uses_total > 0
                                /\ coupon.uses_total >= coupon.max_uses_total
              [] k = 8 -> found /\ \E i \in 1..Len(coupon.customer_ids_who_used) :
                                      coupon.customer_ids_who_used[i] = customer_id
              [] k = 9 -> found /\ (coupon.discount_type \notin {"amount", "percent"}
                                    \/ coupon.discount_value <= 0) }

\* C20: validate answers with the failure of the first check, in the order
\* empty code, unknown code, not active yet, expired, subtotal below the
\* minimum, customer not eligible, cap reached, already used by the customer,
\* misconfigured discount, that the input fails, and accepts the coupon when it
\* fails none.
ValidationOrder ==
    \A p \in Procs :
        procs[p].op = "validate" =>
            LET result == procs[p].mark[1]
                failed == FailedChecks(coupon_codes, procs[p].draft[1].coupon_code,
                                       procs[p].customer_id, procs[p].draft[1].subtotal, now)
            IN  IF failed = {} THEN result.ok
                ELSE /\ ~result.ok
                     /\ \E k \in failed :
                           /\ \A j \in failed : k <= j
                           /\ result.message = CheckMessages[k]

\* a customer validates a coupon whose cap is reached and which the customer
\* has used: the answer is the one of the cap
ValidationOrderWitness ==
    /\ procs["p1"].op = "validate"
    /\ {7, 8} \subseteq FailedChecks(coupon_codes, procs["p1"].draft[1].coupon_code,
                                      procs["p1"].customer_id, procs["p1"].draft[1].subtotal, now)
    /\ procs["p1"].mark[1].message = "This coupon has reached its maximum number of uses."

\* ------------------------------------------------- the discount of a coupon
\* coupons as create_coupon_code writes them, with the discounts an admin can
\* give: an amount below and above the subtotals, a percentage below and
\* above 100
DiscountDocuments ==
    { [code |-> "SAVE",
       discount_type |-> dt[1], discount_value |-> dt[2],
       min_order_subtotal |-> 0, audience |-> "all", eligible_customer_ids |-> {},
       max_uses_total |-> 0, uses_total |-> 0, customer_ids_who_used |-> <<>>,
       starts_at |-> 0, ends_at |-> 0] :
          dt \in {<<"amount", 500>>, <<"amount", 3000>>,
                  <<"percent", 10>>, <<"percent", 50>>, <<"percent", 150>>} }

\* subtotals in cents: none, a few cents, one whose tenth falls on half a
\* cent, and round sums
DiscountSubtotals == {0, 4, 25, 1000, 1005, 2000}

InitDiscount ==
    /\ coupon_codes \in {[c \in Codes |-> <<d>>] : d \in DiscountDocuments}
    /\ now \in 1..MaxNow
    /\ carts = [c \in Customers |-> <<>>]
    /\ checkout_drafts = [c \in Customers |-> <<>>]
    /\ orders = <<>>
    /\ transaction_logs = <<>>
    /\ counters = 0
    /\ sessions = <<>>
    /\ acked = {}
    /\ made = {}
    /\ procs = [p \in Procs |-> Idle]
    /\ totals = NoTotals

NextDiscount ==
    \E code \in CodeInputs, c \in Customers, subtotal \in DiscountSubtotals :
        ValidateCoupon("p1", code, c, subtotal)

SpecDiscount == InitDiscount /\ [][NextDiscount]_vars

\* a handler holds an accepted validation: its coupon, subtotal and result
Accepted(p) ==
    /\ procs[p].op = "validate"
    /\ procs[p].mark[1].ok

\* what the coupon is worth on the subtotal before it is rounded to the cent,
\* capped by the subtotal, in hundredths of a cent
Unrounded(coupon, subtotal) ==
    LET raw == IF coupon.discount_type = "amount"
               THEN 100 * coupon.discount_value
               ELSE subtotal * coupon.discount_value
    IN  IF raw > 100 * subtotal THEN 100 * subtotal ELSE raw

\* C21 as stated: an accepted validation gives exactly min(discount_value,
\* subtotal), or min(subtotal * discount_value / 100, subtotal) for a percent
\* coupon, and a discount above 0 whenever the subtotal is above 0.
DiscountExact ==
    \A p \in Procs :
        Accepted(p) =>
            LET coupon == coupon_codes["SAVE"][1]
                subtotal == procs[p].draft[1].subtotal
            IN  \A d \in procs[p].mark[1].discount_amounts :
                    /\ 100 * d = Unrounded(coupon, subtotal)
                    /\ subtotal > 0 => 0 < d
                    /\ d <= subtotal

\* C21: an accepted validation gives min(discount_value, subtotal), or
\* min(subtotal * discount_value / 100, subtotal) for a percent coupon, rounded
\* to the cent: the discount is within half a cent of that value, it lies
\* between 0 and the subtotal, so that the discounted subtotal is never
\* negative, percentages above 100 included, and it is above 0 whenever the
\* value before rounding is at least half a cent.
DiscountRoundedAndClamped ==
    \A p \in Procs :
        Accepted(p) =>
            LET coupon == coupon_codes["SAVE"][1]
                subtotal == procs[p].draft[1].subtotal
                raw == Unrounded(coupon, subtotal)
            IN  /\ procs[p].mark[1].discount_amounts # {}
                /\ \A d \in procs[p].mark[1].discount_amounts :
                      /\ 100 * d - raw <= 50
                      /\ raw - 100 * d <= 50
                      /\ 0 <= d
                      /\ d <= subtotal
                      /\ raw > 50 => 0 < d

\* a coupon of 150 percent was accepted on a subtotal of 10.05 and is worth
\* the subtotal
DiscountRoundedAndClampedWitness ==
    /\ Accepted("p1")
    /\ coupon_codes["SAVE"][1].discount_type = "percent"
    /\ coupon_codes["SAVE"][1].discount_value = 150
    /\ procs["p1"].draft[1].subtotal = 1005
    /\ procs["p1"].mark[1].discount_amounts = {1005}

\* ------------------------------------------------------ an order's first state
\* C22: an order inserted by a checkout of either payment flow is pending,
\* has ordered_at set to the instant of the insert and every other lifecycle
\* timestamp null, and has no payment_transaction_id; the id appears only in
\* the step that attaches the handler's transaction to it.
NewOrdersPending ==
    [][/\ Len(orders') > Len(orders) =>
             /\ Len(orders') = Len(orders) + 1
             /\ LET o == orders'[Len(orders')]
                IN  /\ o.order_status = "pending"
                    /\ o.ordered_at = now
                    /\ o.ordered_at # 0
                    /\ o.confirmed_at = 0
                    /\ o.packed_at = 0
                    /\ o.out_for_delivery_at = 0
                    /\ o.delivered_at = 0
                    /\ o.canceled_at = 0
                    /\ o.payment_transaction_id = 0
                    /\ o.payment_method \in PaymentMethods
       /\ \A i \in 1..Len(orders) :
             orders'[i].payment_transaction_id # orders[i].payment_transaction_id =>
                \E p \in Procs :
                   /\ Running(p, "attach")
                   /\ procs[p].order_id = orders[i].order_id
                   /\ orders'[i].payment_transaction_id = procs[p].tx_id
                   /\ procs[p].tx_id # 0]_vars

\* the callback's order is inserted and waits for its transaction, next to a
\* cash-on-delivery order whose transaction is attached
NewOrdersPendingWitness ==
    \E i, j \in 1..Len(orders) :
        /\ orders[i].payment_method = "online"
        /\ orders[i].payment_transaction_id = 0
        /\ orders[j].payment_method = "cod"
        /\ orders[j].payment_transaction_id # 0

\* ------------------------------------------------ what an order keeps for good
\* the form of an admin who lowers the coupon's discount
EditedCouponForms == {[form EXCEPT !.discount_value = 300] : form \in UnlimitedCouponForms}

\* Orders of both payment flows, made from drafts with and without a coupon,
\* then moved through their statuses while the admin edits the coupon and the
\* customer saves new drafts.  Every request runs to completion before the
\* next one starts and no storage call fails.
NextFrozen ==
    \/ \E form \in UnlimitedCouponForms : AdminAddCouponCode("SAVE", form)
    \/ \E form \in EditedCouponForms : AdminUpdateCouponCode("SAVE", form)
    \/ \E payload \in DraftPayloads : ApiCheckoutDraft(1, payload)
    \/ \E a \in Addresses : ApiCheckoutStripeSession(1, a, <<>>) /\ FirstSessionOnly
    \/ \E a \in Addresses : ApiCheckoutPlace(1, "cod", a, <<>>, "none")
    \/ StripeWebhook(1, TRUE, "none")
    \/ \E oid \in 1..MaxOrders, s \in Statuses : UpdateOrderStatus(oid, s, <<>>, "none")

SpecFrozen == Init /\ [][NextFrozen]_vars

\* the fields an order takes from its draft
PricingFields ==
    {"items", "subtotal", "discount_amount", "discounted_subtotal", "tax",
     "shipping_fee", "total", "coupon_code"}

\* C23: an order's items, subtotal, discount_amount, discounted_subtotal, tax,
\* shipping_fee, total and coupon_code are those of the customer's draft at
\* the moment the order is inserted, and these fields, customer_id,
\* payment_method and shipping_address never change afterwards.
PricingFrozen ==
    [][/\ Len(orders') > Len(orders) =>
             LET o == orders'[Len(orders')]
                 d == get_checkout_draft(checkout_drafts, o.customer_id)
             IN  /\ d # <<>>
                 /\ \A k \in PricingFields : o[k] = d[1][k]
       /\ \A i \in 1..Len(orders) :
             \A k \in PricingFields \cup {"customer_id", "payment_method", "shipping_address"} :
                orders'[i][k] = orders[i][k]]_vars

\* an order made with the coupon still carries the discount of 5.00 after the
\* admin has lowered the coupon to 3.00, the order was delivered, and the
\* customer has saved a new draft without a coupon
PricingFrozenWitness ==
    \E i \in 1..Len(orders) :
        /\ orders[i].discount_amount = 500
        /\ orders[i].order_status = "delivered"
        /\ coupon_codes["SAVE"] # NoDoc
        /\ coupon_codes["SAVE"][1].discount_value = 300
        /\ checkout_drafts[1] # <<>>
        /\ checkout_drafts[1][1].coupon_code = ""

\* ------------------------------------------------------- the notes of an order
\* what a customer types into the notes of the shipping form: nothing, a
\* space, a line, a line followed by a space or by a newline
NotesTyped ==
    {<<>>, <<SP>>, <<"leave at door">>, <<"leave at door", SP>>, <<"leave at door", WS>>}

\* One cash-on-delivery order with the customer's notes, and the admin's
\* status changes with and without a message.
NextNotes ==
    \/ \E payload \in PlainPayloads : ApiCheckoutDraft(1, payload)
    \/ \E a \in Addresses, n \in NotesTyped :
          ApiCheckoutPlace(1, "cod", a, n, "none") /\ FirstOrderOnly
    \/ \E oid \in {1, 2}, s \in StatusInputs, m \in AdminMessages :
          UpdateOrderStatus(oid, s, m, "none")

SpecNotes == Init /\ [][NextNotes]_vars

\* the number of admin blocks in a text
Blocks(text) == Cardinality({i \in 1..Len(text) : text[i] = "[ADMIN"})

\* new is prev followed by one block tagged with the status
AppendsOneBlock(prev, new, status) ==
    /\ Len(new) > Len(prev)
    /\ SubSeq(new, 1, Len(prev)) = prev
    /\ Blocks(new) = Blocks(prev) + 1
    /\ \E i \in (Len(prev) + 1)..(Len(new) - 1) :
          new[i] = "[ADMIN" /\ new[i + 1] = upper(status)

\* C24: the notes of an order only grow under status changes: an accepted
\* change with a message keeps the previous notes as an unchanged prefix and
\* appends one block tagged with the new status; an accepted change without a
\* message, and a refused change, leave the notes as they were.
NotesAppendOnly ==
    [][\A oid \in {1, 2}, s \in StatusInputs, m \in AdminMessages :
          UpdateOrderStatus(oid, s, m, "none") =>
             \A i \in 1..Len(orders) :
                IF /\ orders[i].order_id = oid
                   /\ update_order_status_detail(orders, oid, s) = ""
                   /\ strip(m) # <<>>
                THEN AppendsOneBlock(orders[i].notes, orders'[i].notes, strip_status(s))
                ELSE orders'[i].notes = orders[i].notes]_vars

\* --------------------------------------------- a delivery that cannot settle
\* Cash-on-delivery orders of a checkout, with a transaction attached, and of
\* the seeding helper, with none, on their way to delivered; the write of the
\* order or the update of the transaction may raise.
NextSettle ==
    \/ \E payload \in PlainPayloads : ApiCheckoutDraft(1, payload)
    \/ \E a \in Addresses : ApiCheckoutPlace(1, "cod", a, <<>>, "none")
    \/ SeedOrders(2, "out_for_delivery", "cod")
    \/ \E oid \in 1..MaxOrders, s \in Statuses, f \in TransitionFaults :
          UpdateOrderStatus(oid, s, <<>>, f)

SpecSettle == Init /\ [][NextSettle]_vars

\* C25: a cash-on-delivery order that is out for delivery can be delivered
\* also when settling its transaction fails, because the update raises or
\* because the order has no transaction to settle: the change is accepted and
\* leaves the order delivered with delivered_at set.
DeliveredDespiteSettlement ==
    \A i \in 1..Len(orders) :
        (orders[i].order_status = "out_for_delivery" /\ orders[i].payment_method = "cod") =>
            /\ update_order_status_detail(orders, orders[i].order_id, "delivered") = ""
            /\ ENABLED (/\ UpdateOrderStatus(orders[i].order_id, "delivered", <<>>, "update_tx")
                        /\ orders'[i].order_status = "delivered"
                        /\ orders'[i].delivered_at = now
                        /\ transaction_logs' = transaction_logs)

\* a checkout's order is delivered and its transaction is still pending: the
\* update of the transaction failed
DeliveredDespiteSettlementWitness ==
    \E i \in 1..Len(orders), j \in 1..Len(transaction_logs) :
        /\ orders[i].order_status = "delivered"
        /\ orders[i].delivered_at # 0
        /\ orders[i].payment_method = "cod"
        /\ orders[i].payment_transaction_id = transaction_logs[j].transaction_id
        /\ transaction_logs[j].status = "pending"

\* ------------------------------------------- a cash-on-delivery checkout
\* api_checkout_place step by step, twice at once for the same customer, who
\* fills the cart and saves drafts in between.
NextPlace ==
    \/ \E product_id \in Products : ApiCartAdd(1, product_id)
    \/ \E form \in UnlimitedCouponForms : AdminAddCouponCode("SAVE", form)
    \/ \E payload \in DraftPayloads : ApiCheckoutDraft(1, payload)
    \/ \E p \in Procs : PlaceBegin(p, 1)
    \/ \E p \in Procs : GetDraft(p)
    \/ \E p \in Procs : MarkCoupon(p)
    \/ \E p \in Procs : CreateOrder(p)
    \/ \E p \in Procs : CreateTransaction(p)
    \/ \E p \in Procs : AttachTransaction(p)
    \/ \E p \in Procs : EmptyCart(p)
    \/ \E p \in Procs : DeleteDraft(p)

SpecPlace == Init /\ [][NextPlace]_vars

\* the positions of the orders and of the transactions with an id
OrdersWithId(os, order_id) == {i \in 1..Len(os) : os[i].order_id = order_id}
TransactionsWithId(txs, tx_id) == {j \in 1..Len(txs) : txs[j].transaction_id = tx_id}

\* the customer is among the users of the coupon
RedeemedBy(cc, code, c) ==
    /\ cc[code] # <<>>
    /\ Occurrences(cc[code][1].customer_ids_who_used, c) > 0

\* the handler's order and transaction are there, once each, as a
\* cash-on-delivery checkout has to leave them
PlacedOrder(me, os) ==
    /\ Cardinality(OrdersWithId(os, me.order_id)) = 1
    /\ \A i \in OrdersWithId(os, me.order_id) :
          /\ os[i].payment_method = "cod"
          /\ os[i].customer_id = me.customer_id
          /\ os[i].total = me.draft[1].total

PlacedTransaction(me, txs) ==
    /\ Cardinality(TransactionsWithId(txs, me.tx_id)) = 1
    /\ \A j \in TransactionsWithId(txs, me.tx_id) :
          /\ txs[j].status = "pending"
          /\ txs[j].provider = ""
          /\ txs[j].payment_method = "cod"
          /\ txs[j].order_id = me.order_id
          /\ txs[j].customer_id = me.customer_id
          /\ txs[j].amount = me.draft[1].total

\* C26: a cash-on-delivery checkout goes through redeem coupon, create order,
\* create transaction, attach, clear cart, delete draft, in this order, and
\* when it answers it has made one order with payment_method = cod, one pending
\* transaction without provider for the same order, customer and the draft's
\* total, the order pointing at the transaction, the cart emptied and the draft
\* deleted.
CodCheckoutSteps ==
    [][\A p \in Procs :
          (procs[p].op = "place" /\ procs'[p].pc # procs[p].pc) =>
             LET me == procs[p]
                 to == procs'[p]
                 c == me.customer_id
             IN  CASE me.pc = "mark_coupon" /\ to.pc = "create_order" ->
                        /\ _normalize_coupon_code(me.draft[1].coupon_code) # "" =>
                              RedeemedBy(coupon_codes', _normalize_coupon_code(me.draft[1].coupon_code), c)
                        /\ UNCHANGED <<orders, transaction_logs, carts, checkout_drafts>>
                   [] me.pc = "create_order" ->
                        /\ to.pc = "create_transaction"
                        /\ Len(orders') = Len(orders) + 1
                        /\ PlacedOrder([me EXCEPT !.order_id = to.order_id], orders')
                        /\ UNCHANGED <<transaction_logs, carts, checkout_drafts>>
                   [] me.pc = "create_transaction" ->
                        /\ to.pc = "attach"
                        /\ Len(transaction_logs') = Len(transaction_logs) + 1
                        /\ PlacedTransaction([me EXCEPT !.tx_id = to.tx_id], transaction_logs')
                        /\ UNCHANGED <<orders, carts, checkout_drafts>>
                   [] me.pc = "attach" ->
                        /\ to.pc = "empty_cart"
                        /\ \A i \in OrdersWithId(orders', me.order_id) :
                              orders'[i].payment_transaction_id = me.tx_id
                        /\ UNCHANGED <<transaction_logs, carts, checkout_drafts>>
                   [] me.pc = "empty_cart" ->
                        /\ to.pc = "delete_draft"
                        /\ carts'[c] = <<>>
                        /\ UNCHANGED <<orders, transaction_logs, checkout_drafts>>
                   [] me.pc = "delete_draft" ->
                        /\ to.pc = "done"
                        /\ to.status = 200
                        /\ checkout_drafts'[c] = <<>>
                        /\ PlacedOrder(me, orders')
                        /\ PlacedTransaction(me, transaction_logs')
                        /\ \A i \in OrdersWithId(orders', me.order_id) :
                              orders'[i].payment_transaction_id = me.tx_id
                        /\ UNCHANGED <<orders, transaction_logs, carts>>
                   [] OTHER -> to.pc \in {"get_draft", "mark_coupon", "done"}]_vars

\* a checkout with a coupon has answered 200: its order points at its pending
\* transaction, cart and draft are gone, the coupon is redeemed
CodCheckoutStepsWitness ==
    \E p \in Procs :
        /\ procs[p].op = "place"
        /\ procs[p].pc = "done"
        /\ procs[p].status = 200
        /\ Len(orders) = 1
        /\ orders[1].coupon_code # ""
        /\ orders[1].payment_transaction_id = transaction_logs[1].transaction_id
        /\ transaction_logs[1].status = "pending"
        /\ carts[1] = <<>>
        /\ checkout_drafts[1] = <<>>

\* ------------------------------------------- status changes racing each other
\* update_order_status_with_message call by call: orders.find_one with the
\* checks on what it returned, then orders.update_one with the settlement and
\* the answer.  The admin leaves no message, so that the $set carries the
\* status and its instant only.
\* orders.find_one and the checks: a refused change answers at once
TransitionFindOrder(p, order_id, new_status_in) ==
    LET detail == update_order_status_detail(orders, order_id, new_status_in)
        started == [Idle EXCEPT !.op = "update_status", !.order_id = order_id,
                                !.message = strip_status(new_status_in)]
    IN  /\ procs[p].pc \in {"idle", "done"}
        /\ procs' = [procs EXCEPT ![p] =
                        IF detail # ""
                        THEN [started EXCEPT !.pc = "done", !.status = 400]
                        ELSE [started EXCEPT !.pc = "update_order",
                                             !.draft = <<orders[first_index(orders, order_id)]>>]]
        /\ UNCHANGED <<coupon_codes, carts, checkout_drafts, orders, transaction_logs,
                       counters, sessions, now, acked, made, totals>>

\* orders.update_one({"order_id": oid}, {"$set": updates}) on the document as
\* it is now, the settlement from the document as it was read, {"ok": True}
TransitionUpdateOrder(p) ==
    LET me == procs[p]
        existing == me.draft[1]
        new_status == me.message
        i == first_index(orders, me.order_id)
    IN  /\ Running(p, "update_order")
        /\ me.op = "update_status"
        /\ orders' = [orders EXCEPT ![i] = status_updates(orders[i], new_status, now, <<>>)]
        /\ transaction_logs' =
              IF cod_delivery_reconciles(existing, new_status)
              THEN update_transaction_status_by_transaction_id(
                       transaction_logs, existing.payment_transaction_id, "succeeded")
              ELSE transaction_logs
        /\ procs' = [procs EXCEPT ![p] = [me EXCEPT !.pc = "done", !.status = 200,
                                                    !.draft = <<>>]]
        /\ UNCHANGED <<coupon_codes, carts, checkout_drafts, counters, sessions, now,
                       acked, made, totals>>

NextRace ==
    \/ \E s \in Statuses : SeedOrders(2, s, "cod") /\ FirstOrderOnly
    \/ Tick
    \/ \E p \in Procs, oid \in 1..MaxOrders, s \in StatusInputs :
          TransitionFindOrder(p, oid, s)
    \/ \E p \in Procs : TransitionUpdateOrder(p)

SpecRace == Init /\ [][NextRace]_vars

\* C27: status changes of one order that run at the same time, each reading
\* the order and then writing it, come out as if they had run one after the
\* other: no order has both confirmed_at and canceled_at set, no two calls
\* have both been answered ok with confirmed and with canceled for the same
\* order, and no write changes a status along a pair that is not an edge.
TransitionsSerializable ==
    /\ [](\A i \in 1..Len(orders) :
             ~(orders[i].confirmed_at # 0 /\ orders[i].canceled_at # 0))
    /\ [](\A p, q \in Procs :
             ~(/\ procs[p].pc = "done" /\ procs[p].status = 200
               /\ procs[q].pc = "done" /\ procs[q].status = 200
               /\ procs[p].op = "update_status" /\ procs[q].op = "update_status"
               /\ procs[p].order_id = procs[q].order_id
               /\ procs[p].message = "confirmed" /\ procs[q].message = "canceled"))
    /\ [][\A i \in 1..Len(orders) :
             orders'[i].order_status # orders[i].order_status =>
                can_transition_order_status(orders[i].order_status,
                                            orders'[i].order_status)]_vars

\* ------------------------------------------------ the instants of an order
\* the instants of the states on the way to a status
PathInstants(status) ==
    CASE status = "pending" -> {}
      [] status = "confirmed" -> {"confirmed_at"}
      [] status = "packed" -> {"confirmed_at", "packed_at"}
      [] status = "out_for_delivery" -> {"confirmed_at", "packed_at", "out_for_delivery_at"}
      [] status = "delivered" ->
            {"confirmed_at", "packed_at", "out_for_delivery_at", "delivered_at"}
      [] status = "canceled" -> {"canceled_at"}

StateInstants ==
    {"confirmed_at", "packed_at", "out_for_delivery_at", "delivered_at", "canceled_at"}

\* C28: when every status change runs to completion before the next one
\* starts, each order, made by a checkout or seeded, has ordered_at set and of
\* the other instants exactly those of the states on the way to its status:
\* none when pending, confirmed_at when confirmed, confirmed_at and packed_at
\* when packed, these and out_for_delivery_at when out for delivery, these and
\* delivered_at when delivered, canceled_at alone when canceled.
InstantsOfThePath ==
    \A i \in 1..Len(orders) :
        /\ orders[i].ordered_at # 0
        /\ \A field \in StateInstants :
              orders[i][field] # 0 <=> field \in PathInstants(orders[i].order_status)

\* an order placed by a customer has been taken out for delivery by the admin,
\* next to a seeded one that was canceled
InstantsOfThePathWitness ==
    /\ Len(orders) = 2
    /\ \E i, j \in 1..2 :
          /\ orders[i].customer_id = 1
          /\ orders[i].order_status = "out_for_delivery"
          /\ orders[i].out_for_delivery_at # 0
          /\ orders[j].customer_id = 2
          /\ orders[j].order_status = "canceled"

\* --------------------------------------------- what was paid and what is made
\* The customer saves drafts and starts payment sessions, one more than in the
\* other specifications so that a session can be followed by another one; the
\* provider reports the payments in any order and more than once.
NextPaid ==
    \/ \E form \in UnlimitedCouponForms : AdminAddCouponCode("SAVE", form)
    \/ \E payload \in DraftPayloads : ApiCheckoutDraft(1, payload)
    \/ \E a \in Addresses : ApiCheckoutStripeSessionUpTo(1, a, <<>>, MaxSessions + 1)
    \/ \E ref \in 1..(MaxSessions + 1) : StripeWebhook(ref, TRUE, "none")

SpecPaid == Init /\ [][NextPaid]_vars

\* C29: the order made by a payment callback and its transaction carry the
\* amount of the payment session that was paid, also when the customer has
\* replaced the draft between the start of the session and the callback.
PaidAmountOrdered ==
    \A j \in 1..Len(transaction_logs) :
        LET tx == transaction_logs[j]
        IN  tx.provider = "stripe" =>
               /\ tx.amount = sessions[tx.provider_payment_intent_id].amount
               /\ \A i \in 1..Len(orders) :
                     orders[i].order_id = tx.order_id =>
                        orders[i].total = sessions[tx.provider_payment_intent_id].amount

\* ------------------------------------------- redeemed coupons and their orders
\* Checkouts by both payment flows with a coupon in the draft; the insert of
\* the order or of the transaction, both after the coupon is redeemed, may
\* raise.  Every request runs to completion before the next one starts.
MaterializeFaults == {"none", "insert_order", "insert_tx"}

NextRedeem ==
    \/ \E form \in UnlimitedCouponForms : AdminAddCouponCode("SAVE", form)
    \/ \E payload \in DraftPayloads : ApiCheckoutDraft(1, payload)
    \/ \E a \in Addresses : ApiCheckoutStripeSession(1, a, <<>>)
    \/ \E a \in Addresses, f \in MaterializeFaults : ApiCheckoutPlace(1, "cod", a, <<>>, f)
    \/ \E f \in MaterializeFaults : StripeWebhook(1, TRUE, f)

SpecRedeem == Init /\ [][NextRedeem]_vars

\* C30: whenever no checkout is in progress, a customer is among
\* customer_ids_who_used of a coupon only if there is an order of this customer
\* carrying the coupon's code, in both payment flows and also when the insert
\* of the order or of the transaction fails after the coupon was redeemed.
RedeemedOnlyWithOrder ==
    \A code \in Codes, c \in Customers :
        RedeemedBy(coupon_codes, code, c) =>
           \E i \in 1..Len(orders) :
               /\ orders[i].customer_id = c
               /\ _normalize_coupon_code(orders[i].coupon_code) = code

====
